---- MODULE Spec2Model ----
(***************************************************************************)
(* Model of pydoop's pipes command streams (pydoop/mapreduce/streams.py):  *)
(* the command vocabulary, PushBackStream, KeyValuesStream (reduce side)   *)
(* and get_key_value_stream (map side).                                    *)
(*                                                                         *)
(* A command is a record [cmd |-> code, args |-> tuple]; Python's args[0]  *)
(* is args[1] here and an absent argument tuple (None) is <<>>.            *)
(* Generators follow the semantics of the interpreters the code was        *)
(* written for (Python 2.7, 3.4-3.6): `raise StopIteration` inside a       *)
(* generator body ends the generator.                                      *)
(***************************************************************************)
EXTENDS Integers, Sequences, FiniteSets, TLC

VARIABLES
    input,             \* the commands the underlying iterator will deliver
    pos,               \* how many of them stream_iterator has delivered
    lifo,              \* PushBackStream.lifo
    private_encoding,  \* KeyValuesStream.private_encoding
    outer,             \* the latest fast_iterator generator: none, live, done
    inners,            \* the get_value_stream generators, in creation order
    acted,             \* history: commands drawn and not pushed back, with who drew them
    disciplined,       \* history: no outer request was made while an inner was live
    last,              \* history: the latest call and what it did
    ops,               \* history: the calls made on a bare PushBackStream
    kv,                \* the get_key_value_stream generator: live, done
    kvOut,             \* history: what get_key_value_stream has yielded
    wire,              \* the records BinaryWriter has written to its CommandWriter
    sent,              \* history: the send() calls made on the BinaryWriter
    hf,                \* the fields of an hdfs_file object
    raw,               \* the raw file under it and what the filesystem reports
    fh,                \* history: the calls made on the hdfs_file
    mode               \* a common.Mode object and the argument it was made from

vars == <<input, pos, lifo, private_encoding, outer, inners, acted,
          disciplined, last, ops, kv, kvOut, wire, sent, hf, raw, fh, mode>>

---------------------------------------------------------------------------
\* Command vocabulary (streams.py, lines 27-45)

START_MESSAGE == 0
SET_JOB_CONF == 1
SET_INPUT_TYPES == 2
RUN_MAP == 3
MAP_ITEM == 4
RUN_REDUCE == 5
REDUCE_KEY == 6
REDUCE_VALUE == 7
CLOSE == 8
ABORT == 9
AUTHENTICATION_REQ == 10
OUTPUT == 50
PARTITIONED_OUTPUT == 51
STATUS == 52
PROGRESS == 53
DONE == 54
REGISTER_COUNTER == 55
INCREMENT_COUNTER == 56
AUTHENTICATION_RESP == 57

---------------------------------------------------------------------------
\* Bounds of the model

\* longest input over the whole alphabet
MaxLen == 3
\* longest well-formed reduce input (REDUCE_KEY REDUCE_VALUE* ... CLOSE)
MaxWF == 5
\* longest map input made of MAP_ITEM and CLOSE commands only
MaxMap == 4
\* longest underlying sequence of a bare PushBackStream
MaxUnder == 2
\* number of calls made on a bare PushBackStream
MaxOps == 5

\* the payloads of keys, values and items: two, so that orders can be told apart
Payloads == {1, 2}

Cmd(c, a) == [cmd |-> c, args |-> a]

KeyCmds == {Cmd(REDUCE_KEY, <<p>>) : p \in Payloads}
ValueCmds == {Cmd(REDUCE_VALUE, <<p>>) : p \in Payloads}
MapCmds == {Cmd(MAP_ITEM, <<p, 3 - p>>) : p \in Payloads}
CloseCmd == Cmd(CLOSE, <<>>)
AbortCmd == Cmd(ABORT, <<>>)
OutputCmd == Cmd(OUTPUT, <<1, 1>>)

ReduceAlphabet == KeyCmds \cup ValueCmds \cup {CloseCmd}
Alphabet == ReduceAlphabet \cup MapCmds \cup {AbortCmd, OutputCmd}

SeqsUpTo(S, n) == UNION {[1..k -> S] : k \in 0..n}

\* REDUCE_KEY REDUCE_VALUE* repeated, then CLOSE, and nothing after it
WellFormed(s) ==
    /\ Len(s) >= 1
    /\ s[Len(s)].cmd = CLOSE
    /\ \A i \in 1..(Len(s) - 1) : s[i].cmd \in {REDUCE_KEY, REDUCE_VALUE}
    /\ Len(s) >= 2 => s[1].cmd = REDUCE_KEY

Inputs == SeqsUpTo(Alphabet, MaxLen)
              \cup {s \in SeqsUpTo(ReduceAlphabet, MaxWF) : WellFormed(s)}
              \cup SeqsUpTo(MapCmds \cup {CloseCmd}, MaxMap)

\* what a call reports when the sequence it advances has ended
NoCmd == Cmd(-1, <<>>)

---------------------------------------------------------------------------
\* PushBackStream (streams.py, lines 168-186)

Front(s) == SubSeq(s, 1, Len(s) - 1)

\* a queue instead of a stack
push_back_fifo(l, v) == <<v>> \o l

\* push_back: self.lifo.append(v)
push_back(l, v) == Append(l, v)

\* draws from the underlying iterator although an item is pushed back
PushBackStream_next_eager(l, p) ==
    IF p < Len(input)
    THEN [ok |-> TRUE, item |-> input[p + 1], lifo |-> l, pos |-> p + 1]
    ELSE IF l # <<>>
    THEN [ok |-> TRUE, item |-> l[Len(l)], lifo |-> Front(l), pos |-> p]
    ELSE [ok |-> FALSE, item |-> NoCmd, lifo |-> l, pos |-> p]

\* __next__: pop the pushed-back item if there is one, else next(stream_iterator),
\* whose StopIteration (ok = FALSE) passes through
PushBackStream_next(l, p) ==
    IF l # <<>>
    THEN [ok |-> TRUE, item |-> l[Len(l)], lifo |-> Front(l), pos |-> p]
    ELSE IF p < Len(input)
    THEN [ok |-> TRUE, item |-> input[p + 1], lifo |-> l, pos |-> p + 1]
    ELSE [ok |-> FALSE, item |-> NoCmd, lifo |-> l, pos |-> p]

\* last before any call: op is the call ("gen" a resumption of the fast_iterator
\* generator, "next" KeyValuesStream.next(), "inner" a resumption of the i-th
\* get_value_stream generator, "kv" of the get_key_value_stream generator), res
\* how it came back, seen the commands it drew, pushed those it pushed back and
\* out what it yielded or returned
NoCall == [op |-> "none", i |-> 0, res |-> "none", seen |-> <<>>,
           pushed |-> <<>>, out |-> <<>>]

\* the variables of the hdfs_file model while no file is open
NoFile == [closed |-> TRUE]

\* no Mode object has been made
NoMode == [made |-> FALSE]

\* no stream has been used
IdlePipes ==
    /\ pos = 0
    /\ lifo = <<>>
    /\ outer = "none"
    /\ inners = <<>>
    /\ acted = <<>>
    /\ disciplined = TRUE
    /\ last = NoCall
    /\ ops = <<>>
    /\ kv = "live"
    /\ kvOut = <<>>
    /\ wire = <<>>
    /\ sent = <<>>
    /\ mode = NoMode

Idle ==
    /\ IdlePipes
    /\ hf = NoFile
    /\ raw = NoFile
    /\ fh = NoFile

\* a bare PushBackStream over a short underlying sequence
PBItems == KeyCmds \cup {CloseCmd}

InitPB ==
    /\ input \in SeqsUpTo(PBItems, MaxUnder)
    /\ private_encoding = FALSE
    /\ Idle

\* one call of next() on the bare stream; the entry records the stack height and
\* the position before the call and the position after it
PBNext ==
    /\ Len(ops) < MaxOps
    /\ LET r == PushBackStream_next(lifo, pos) IN
        /\ lifo' = r.lifo
        /\ pos' = r.pos
        /\ ops' = Append(ops, [op |-> "next", item |-> r.item, ok |-> r.ok,
                               height |-> Len(lifo), from |-> pos, to |-> r.pos])
    /\ UNCHANGED <<input, private_encoding, outer, inners, acted, disciplined,
                   last, kv, kvOut,
                   wire, sent, hf, raw, fh, mode>>

\* one call of push_back(v) on the bare stream
PBPush ==
    /\ Len(ops) < MaxOps
    /\ \E v \in PBItems :
        /\ lifo' = push_back(lifo, v)
        /\ ops' = Append(ops, [op |-> "push", item |-> v, ok |-> TRUE,
                               height |-> Len(lifo), from |-> pos, to |-> pos])
    /\ UNCHANGED <<input, pos, private_encoding, outer, inners, acted,
                   disciplined, last, kv, kvOut,
                   wire, sent, hf, raw, fh, mode>>

NextPB == PBNext \/ PBPush

SpecPB == InitPB /\ [][NextPB]_vars

---------------------------------------------------------------------------
\* KeyValuesStream (streams.py, lines 189-243)

\* pydoop.utils.serialize.private_decode: turns a serialized payload into a
\* typed value, which is another object than the payload
private_decode(x) == x + 10

\* the argument is handed over as it came, whatever the flag
decode_arg_raw(pe, a) == a[1]

\* private_decode(args[0]) if private_encoding else args[0]
decode_arg(pe, a) == IF pe THEN private_decode(a[1]) ELSE a[1]

Result(res, out, r, seen, pushed) ==
    [res |-> res, out |-> out, lifo |-> r.lifo, pos |-> r.pos, seen |-> seen,
     pushed |-> pushed]

\* the scan treats a REDUCE_VALUE as an out of order command
RECURSIVE scan_strict(_, _, _, _)
scan_strict(pe, l, p, seen) ==
    LET r == PushBackStream_next(l, p) IN
    IF ~r.ok THEN Result("StopIteration", <<>>, r, seen, <<>>)
    ELSE IF r.item.cmd = CLOSE
    THEN Result("StopIteration", <<>>, r, Append(seen, r.item), <<>>)
    ELSE IF r.item.cmd = REDUCE_KEY
    THEN Result("yield", <<decode_arg(pe, r.item.args)>>, r, Append(seen, r.item), <<>>)
    ELSE Result("ProtocolError", <<>>, r, Append(seen, r.item), <<>>)

\* the scan ends at a command that is out of order instead of raising
RECURSIVE scan_lenient(_, _, _, _)
scan_lenient(pe, l, p, seen) ==
    LET r == PushBackStream_next(l, p) IN
    IF ~r.ok THEN Result("StopIteration", <<>>, r, seen, <<>>)
    ELSE IF r.item.cmd = REDUCE_KEY
    THEN Result("yield", <<decode_arg(pe, r.item.args)>>, r, Append(seen, r.item), <<>>)
    ELSE IF r.item.cmd = REDUCE_VALUE
    THEN scan_lenient(pe, r.lifo, r.pos, Append(seen, r.item))
    ELSE Result("StopIteration", <<>>, r, Append(seen, r.item), <<>>)

\* the scan raises when the stream is exhausted before a CLOSE
RECURSIVE scan_needs_close(_, _, _, _)
scan_needs_close(pe, l, p, seen) ==
    LET r == PushBackStream_next(l, p) IN
    IF ~r.ok THEN Result("ProtocolError", <<>>, r, seen, <<>>)
    ELSE IF r.item.cmd = CLOSE
    THEN Result("StopIteration", <<>>, r, Append(seen, r.item), <<>>)
    ELSE IF r.item.cmd = REDUCE_KEY
    THEN Result("yield", <<decode_arg(pe, r.item.args)>>, r, Append(seen, r.item), <<>>)
    ELSE IF r.item.cmd = REDUCE_VALUE
    THEN scan_needs_close(pe, r.lifo, r.pos, Append(seen, r.item))
    ELSE Result("ProtocolError", <<>>, r, Append(seen, r.item), <<>>)

\* the scan skips a command that is out of order and reads on
RECURSIVE scan_skips_other(_, _, _, _)
scan_skips_other(pe, l, p, seen) ==
    LET r == PushBackStream_next(l, p) IN
    IF ~r.ok THEN Result("StopIteration", <<>>, r, seen, <<>>)
    ELSE IF r.item.cmd = CLOSE
    THEN Result("StopIteration", <<>>, r, Append(seen, r.item), <<>>)
    ELSE IF r.item.cmd = REDUCE_KEY
    THEN Result("yield", <<decode_arg(pe, r.item.args)>>, r, Append(seen, r.item), <<>>)
    ELSE scan_skips_other(pe, r.lifo, r.pos, Append(seen, r.item))

\* fast_iterator: one resumption of the generator, from `for cmd, args in stream`
\* to the next yield, raise or end of the loop
RECURSIVE fast_iterator(_, _, _, _)
fast_iterator(pe, l, p, seen) ==
    LET r == PushBackStream_next(l, p) IN
    IF ~r.ok THEN Result("StopIteration", <<>>, r, seen, <<>>)
    ELSE IF r.item.cmd = CLOSE
    THEN Result("StopIteration", <<>>, r, Append(seen, r.item), <<>>)
    ELSE IF r.item.cmd = REDUCE_KEY
    THEN Result("yield", <<decode_arg(pe, r.item.args)>>, r, Append(seen, r.item), <<>>)
    ELSE IF r.item.cmd = REDUCE_VALUE
    THEN fast_iterator(pe, r.lifo, r.pos, Append(seen, r.item))
    ELSE Result("ProtocolError", <<>>, r, Append(seen, r.item), <<>>)

\* KeyValuesStream.next: one call, from `for cmd, args in self.stream` to the
\* return, raise or end of the loop
RECURSIVE KeyValuesStream_next(_, _, _, _)
KeyValuesStream_next(pe, l, p, seen) ==
    LET r == PushBackStream_next(l, p) IN
    IF ~r.ok THEN Result("StopIteration", <<>>, r, seen, <<>>)
    ELSE IF r.item.cmd = CLOSE
    THEN Result("StopIteration", <<>>, r, Append(seen, r.item), <<>>)
    ELSE IF r.item.cmd = REDUCE_KEY
    THEN Result("yield", <<decode_arg(pe, r.item.args)>>, r, Append(seen, r.item), <<>>)
    ELSE IF r.item.cmd = REDUCE_VALUE
    THEN KeyValuesStream_next(pe, r.lifo, r.pos, Append(seen, r.item))
    ELSE Result("ProtocolError", <<>>, r, Append(seen, r.item), <<>>)

\* the inner sequence ends at a REDUCE_KEY or CLOSE without pushing it back
get_value_stream_nopush(pe, l, p) ==
    LET r == PushBackStream_next(l, p) IN
    IF ~r.ok THEN Result("StopIteration", <<>>, r, <<>>, <<>>)
    ELSE IF r.item.cmd = REDUCE_VALUE
    THEN Result("yield", <<decode_arg(pe, r.item.args)>>, r, <<r.item>>, <<>>)
    ELSE Result("StopIteration", <<>>, r, <<r.item>>, <<>>)

\* the inner sequence raises on a command of another code
get_value_stream_raise(pe, l, p) ==
    LET r == PushBackStream_next(l, p) IN
    IF ~r.ok THEN Result("StopIteration", <<>>, r, <<>>, <<>>)
    ELSE IF r.item.cmd = REDUCE_VALUE
    THEN Result("yield", <<decode_arg(pe, r.item.args)>>, r, <<r.item>>, <<>>)
    ELSE IF r.item.cmd \in {REDUCE_KEY, CLOSE}
    THEN Result("StopIteration", <<>>,
                [r EXCEPT !.lifo = push_back(r.lifo, r.item)], <<r.item>>, <<r.item>>)
    ELSE Result("ProtocolError", <<>>, r, <<r.item>>, <<>>)

\* the inner sequence looks at the command after the value it yields and
\* pushes it back
get_value_stream_peek(pe, l, p) ==
    LET r == PushBackStream_next(l, p)
        a == PushBackStream_next(r.lifo, r.pos) IN
    IF ~r.ok THEN Result("StopIteration", <<>>, r, <<>>, <<>>)
    ELSE IF r.item.cmd = REDUCE_VALUE
    THEN IF a.ok
         THEN Result("yield", <<decode_arg(pe, r.item.args)>>,
                     [a EXCEPT !.lifo = push_back(a.lifo, a.item)], <<r.item>>, <<>>)
         ELSE Result("yield", <<decode_arg(pe, r.item.args)>>, r, <<r.item>>, <<>>)
    ELSE Result("StopIteration", <<>>,
                [r EXCEPT !.lifo = push_back(r.lifo, r.item)], <<r.item>>, <<r.item>>)

\* get_value_stream: one resumption of the generator
get_value_stream(pe, l, p) ==
    LET r == PushBackStream_next(l, p) IN
    IF ~r.ok THEN Result("StopIteration", <<>>, r, <<>>, <<>>)
    ELSE IF r.item.cmd = CLOSE
    THEN Result("StopIteration", <<>>,
                [r EXCEPT !.lifo = push_back(r.lifo, r.item)], <<r.item>>, <<r.item>>)
    ELSE IF r.item.cmd = REDUCE_VALUE
    THEN Result("yield", <<decode_arg(pe, r.item.args)>>, r, <<r.item>>, <<>>)
    ELSE Result("StopIteration", <<>>,
                [r EXCEPT !.lifo = push_back(r.lifo, r.item)], <<r.item>>, <<r.item>>)

Init ==
    /\ input \in Inputs
    /\ private_encoding \in BOOLEAN
    /\ Idle

Tag(s, who) == [j \in 1..Len(s) |-> [c |-> s[j], by |-> who]]

AllDrained == \A j \in 1..Len(inners) : ~inners[j].live

\* what a request on the outer sequence that came back as r does to the stream
\* and to the histories
OuterEffect(op, r) ==
    /\ lifo' = r.lifo
    /\ pos' = r.pos
    /\ acted' = acted \o Tag(r.seen, "outer")
    /\ inners' = IF r.res = "yield"
                 THEN Append(inners, [key |-> r.out[1], vals |-> <<>>, live |-> TRUE,
                                      at |-> Len(acted) + Len(r.seen)])
                 ELSE inners
    /\ disciplined' = (disciplined /\ AllDrained)
    /\ last' = [op |-> op, i |-> 0, res |-> r.res, seen |-> r.seen,
                pushed |-> r.pushed, out |-> r.out]

\* KeyValuesStream.__iter__: a new fast_iterator generator, not yet started
Iter ==
    /\ outer' = "live"
    /\ UNCHANGED <<input, pos, lifo, private_encoding, inners, acted,
                   disciplined, last, ops, kv, kvOut,
                   wire, sent, hf, raw, fh, mode>>

\* next() on the fast_iterator generator
GenNext ==
    /\ outer = "live"
    /\ LET r == fast_iterator(private_encoding, lifo, pos, <<>>) IN
        /\ OuterEffect("gen", r)
        /\ outer' = IF r.res = "yield" THEN "live" ELSE "done"
    /\ UNCHANGED <<input, private_encoding, ops, kv, kvOut,
                   wire, sent, hf, raw, fh, mode>>

\* next() on a fast_iterator generator that has ended or raised
GenNextDone ==
    /\ outer = "done"
    /\ last' = [NoCall EXCEPT !.op = "gen", !.res = "StopIteration"]
    /\ disciplined' = (disciplined /\ AllDrained)
    /\ UNCHANGED <<input, pos, lifo, private_encoding, outer, inners, acted,
                   ops, kv, kvOut,
                   wire, sent, hf, raw, fh, mode>>

\* KeyValuesStream.next() / __next__()
KvsNext ==
    /\ LET r == KeyValuesStream_next(private_encoding, lifo, pos, <<>>) IN
        OuterEffect("next", r)
    /\ UNCHANGED <<input, private_encoding, outer, ops, kv, kvOut,
                   wire, sent, hf, raw, fh, mode>>

\* next() on the i-th get_value_stream generator
InnerNext(i) ==
    /\ inners[i].live
    /\ LET r == get_value_stream(private_encoding, lifo, pos) IN
        /\ lifo' = r.lifo
        /\ pos' = r.pos
        /\ acted' = IF r.pushed = <<>> THEN acted \o Tag(r.seen, "inner") ELSE acted
        /\ inners' = [inners EXCEPT ![i] =
                         IF r.res = "yield"
                         THEN [@ EXCEPT !.vals = Append(@, r.out[1])]
                         ELSE [@ EXCEPT !.live = FALSE]]
        /\ last' = [op |-> "inner", i |-> i, res |-> r.res, seen |-> r.seen,
                    pushed |-> r.pushed, out |-> r.out]
    /\ UNCHANGED <<input, private_encoding, outer, disciplined, ops, kv, kvOut,
                   wire, sent, hf, raw, fh, mode>>

\* next() on a get_value_stream generator that has ended
InnerNextDone(i) ==
    /\ ~inners[i].live
    /\ last' = [NoCall EXCEPT !.op = "inner", !.i = i, !.res = "StopIteration"]
    /\ UNCHANGED <<input, pos, lifo, private_encoding, outer, inners, acted,
                   disciplined, ops, kv, kvOut,
                   wire, sent, hf, raw, fh, mode>>

Next ==
    \/ Iter
    \/ GenNext
    \/ GenNextDone
    \/ KvsNext
    \/ \E i \in 1..Len(inners) : InnerNext(i)
    \/ \E i \in 1..Len(inners) : InnerNextDone(i)

Spec == Init /\ [][Next]_vars

\* the outer sequence has ended or raised in the caller's hands
Finished ==
    /\ last.op \in {"gen", "next"}
    /\ last.res \in {"StopIteration", "ProtocolError"}

\* a caller that drains: `for key, values in kvs: for v in values: pass`, or the
\* same loop written with kvs.next(); it asks for the next pair only when the
\* values of the last one are drained and stops at the end or at the error
DrainIter ==
    /\ outer = "none"
    /\ Iter

DrainGenNext ==
    /\ AllDrained
    /\ ~Finished
    /\ GenNext

DrainKvsNext ==
    /\ AllDrained
    /\ ~Finished
    /\ KvsNext

DrainInnerNext ==
    /\ inners # <<>>
    /\ InnerNext(Len(inners))

NextDrain == DrainIter \/ DrainGenNext \/ DrainKvsNext \/ DrainInnerNext

\* the caller's loop keeps running while it has a request to make
SpecDrain == Init /\ [][NextDrain]_vars /\ WF_vars(NextDrain)

---------------------------------------------------------------------------
\* get_key_value_stream (streams.py, lines 250-258)

\* has no branch for CLOSE, which then is one more out of order command
get_key_value_stream_noclose(p) ==
    IF p >= Len(input)
    THEN [res |-> "StopIteration", out |-> <<>>, pos |-> p, seen |-> <<>>]
    ELSE LET c == input[p + 1] IN
         IF c.cmd = MAP_ITEM
         THEN [res |-> "yield", out |-> <<c.args>>, pos |-> p + 1, seen |-> <<c>>]
         ELSE [res |-> "ProtocolError", out |-> <<>>, pos |-> p + 1, seen |-> <<c>>]

\* the sequence ends at a command that is out of order instead of raising
get_key_value_stream_lenient(p) ==
    IF p >= Len(input)
    THEN [res |-> "StopIteration", out |-> <<>>, pos |-> p, seen |-> <<>>]
    ELSE LET c == input[p + 1] IN
         IF c.cmd = MAP_ITEM
         THEN [res |-> "yield", out |-> <<c.args>>, pos |-> p + 1, seen |-> <<c>>]
         ELSE [res |-> "StopIteration", out |-> <<>>, pos |-> p + 1, seen |-> <<c>>]

\* get_key_value_stream: one resumption of the generator over the stream itself
get_key_value_stream(p) ==
    IF p >= Len(input)
    THEN [res |-> "StopIteration", out |-> <<>>, pos |-> p, seen |-> <<>>]
    ELSE LET c == input[p + 1] IN
         IF c.cmd = CLOSE
         THEN [res |-> "StopIteration", out |-> <<>>, pos |-> p + 1, seen |-> <<c>>]
         ELSE IF c.cmd = MAP_ITEM
         THEN [res |-> "yield", out |-> <<c.args>>, pos |-> p + 1, seen |-> <<c>>]
         ELSE [res |-> "ProtocolError", out |-> <<>>, pos |-> p + 1, seen |-> <<c>>]

\* next() on the get_key_value_stream generator
KvNext ==
    /\ kv = "live"
    /\ LET r == get_key_value_stream(pos) IN
        /\ pos' = r.pos
        /\ kv' = IF r.res = "yield" THEN "live" ELSE "done"
        /\ kvOut' = kvOut \o r.out
        /\ last' = [op |-> "kv", i |-> 0, res |-> r.res, seen |-> r.seen,
                    pushed |-> <<>>, out |-> r.out]
    /\ UNCHANGED <<input, lifo, private_encoding, outer, inners, acted,
                   disciplined, ops,
                   wire, sent, hf, raw, fh, mode>>

\* next() on a get_key_value_stream generator that has ended or raised
KvNextDone ==
    /\ kv = "done"
    /\ last' = [NoCall EXCEPT !.op = "kv", !.res = "StopIteration"]
    /\ UNCHANGED <<input, pos, lifo, private_encoding, outer, inners, acted,
                   disciplined, ops, kv, kvOut,
                   wire, sent, hf, raw, fh, mode>>

NextMap == KvNext \/ KvNextDone

SpecMap == Init /\ [][NextMap]_vars

---------------------------------------------------------------------------
\* Properties of the bare PushBackStream

\* entries i .. i+k-1 of ops are all calls of o
IsRun(i, k, o) == \A j \in i..(i + k - 1) : ops[j].op = o

\* k calls of push_back starting at entry i, followed at once by k calls of next()
PushesThenNexts(i, k) ==
    /\ k >= 1
    /\ i >= 1
    /\ i + 2 * k - 1 <= Len(ops)
    /\ IsRun(i, k, "push")
    /\ IsRun(i + k, k, "next")

\* C8: Pushback LIFO law. From any state of a PushBackStream, k calls of
\* push_back followed by k calls of next() return the pushed items in the
\* reverse order of pushing (push a, push b: b then a), and none of those k
\* calls of next() draws from the underlying iterator.
C8_PushbackLIFO ==
    \A k \in 1..Len(ops) : \A i \in 1..Len(ops) :
        PushesThenNexts(i, k) =>
            \A j \in 1..k :
                /\ ops[i + k + j - 1].ok
                /\ ops[i + k + j - 1].item = ops[i + k - j].item
                /\ ops[i + k + j - 1].to = ops[i + k + j - 1].from

\* C8 witness: push_back(a), push_back(b) with a # b on a stream whose stack
\* already held an item and whose underlying iterator still had items to give,
\* followed by two calls of next()
C8_Witness ==
    \E i \in 1..Len(ops) :
        /\ PushesThenNexts(i, 2)
        /\ ops[i].item # ops[i + 1].item
        /\ ops[i].height >= 1
        /\ ops[i].from < Len(input)

\* C9: next() draws from the underlying iterator only when the pushback stack
\* is empty, signals end-of-sequence only when the stack is empty and the
\* underlying iterator is exhausted, and returns an item that was pushed back
\* after the underlying iterator was exhausted.
C9_DrawOnlyWhenEmpty ==
    \A i \in 1..Len(ops) :
        ops[i].op = "next" =>
            /\ ops[i].to # ops[i].from => ops[i].height = 0
            /\ ~ops[i].ok => (ops[i].height = 0 /\ ops[i].from = Len(input))
            /\ (/\ i + 2 <= Len(ops)
                /\ ~ops[i].ok
                /\ ops[i + 1].op = "push"
                /\ ops[i + 2].op = "next")
               => (/\ ops[i + 2].ok
                   /\ ops[i + 2].item = ops[i + 1].item
                   /\ ops[i + 2].to = ops[i + 2].from)

\* C9 witness: next() drew the whole underlying sequence (at least one item)
\* and then signalled end-of-sequence, an item was pushed back, and next() was
\* called again
C9_Witness ==
    \E i \in 2..Len(ops) :
        /\ i + 2 <= Len(ops)
        /\ ops[i - 1].op = "next" /\ ops[i - 1].to = ops[i - 1].from + 1
        /\ ops[i].op = "next" /\ ~ops[i].ok
        /\ ops[i + 1].op = "push"
        /\ ops[i + 2].op = "next"

---------------------------------------------------------------------------
\* BinaryReader and BinaryWriter (binary_streams.py)

\* the down vocabulary and the up vocabulary of command codes
DownCodes == START_MESSAGE..AUTHENTICATION_REQ

UpCodes == OUTPUT..AUTHENTICATION_RESP

\* pydoop.utils.serialize.CommandReader: next() decodes the next record of the
\* byte stream into (cmd, args), whatever its code, and signals the end when
\* the byte stream has no more
CommandReader_next(p) ==
    IF p >= Len(input)
    THEN [res |-> "StopIteration", out |-> <<>>, pos |-> p]
    ELSE [res |-> "return", out |-> <<input[p + 1]>>, pos |-> p + 1]

\* pydoop.utils.serialize.CommandWriter: write((cmd, args)) encodes the record,
\* whatever its code, and appends it to the byte stream
CommandWriter_write(w, rec) == Append(w, rec)

\* BinaryReader.next: return next(self.stream)
BinaryReader_next(p) == CommandReader_next(p)

\* what a request on the reader that came back as r leaves behind
ReaderEffect(op, r) ==
    /\ pos' = r.pos
    /\ last' = [op |-> op, i |-> 0, res |-> r.res, seen |-> r.out,
                pushed |-> <<>>, out |-> r.out]
    /\ UNCHANGED <<input, lifo, private_encoding, outer, inners, acted,
                   disciplined, ops, kv, kvOut, wire, sent, hf, raw, fh, mode>>

\* BinaryDownStreamAdapter.next() / __next__()
BinNext == ReaderEffect("bnext", BinaryReader_next(pos))

\* next() on the iterator BinaryReader.__iter__ returns, which is the
\* CommandReader's own iterator
BinIterNext == ReaderEffect("biter", BinaryReader_next(pos))

NextReader == BinNext \/ BinIterNext

SpecReader == Init /\ [][NextReader]_vars

\* argument values: text is a sequence of code points, bytes a sequence of
\* octets, anything else (here an integer) has a type tag of its own
Text(v) == [t |-> "text", v |-> v]

Bytes(v) == [t |-> "bytes", v |-> v]

Num(n) == [t |-> "int", v |-> <<n>>]

Tuple(v) == [t |-> "tuple", v |-> v]

\* the UTF-8 octets of a code point below U+0800
utf8_char(c) == IF c < 128 THEN <<c>> ELSE <<192 + (c \div 64), 128 + (c % 64)>>

\* x.encode('utf-8')
RECURSIVE encode_utf8(_)
encode_utf8(s) ==
    IF s = <<>> THEN <<>> ELSE utf8_char(Head(s)) \o encode_utf8(Tail(s))

\* x.encode('utf-8') if isinstance(x, unicode) else x
normalize(x) == IF x.t = "text" THEN Bytes(encode_utf8(x.v)) ELSE x

\* send never wraps the argument tuple
send_nowrap(cmd, args) ==
    [cmd |-> cmd, args |-> [j \in 1..Len(args) |-> normalize(args[j])]]

\* send writes text arguments as they are
send_noencode(cmd, args) ==
    IF cmd = SET_JOB_CONF THEN [cmd |-> cmd, args |-> <<Tuple(args)>>]
    ELSE [cmd |-> cmd, args |-> args]

\* BinaryWriter.send: the record it hands to CommandWriter.write
send(cmd, args) ==
    LET a == [j \in 1..Len(args) |-> normalize(args[j])] IN
    IF cmd = SET_JOB_CONF THEN [cmd |-> cmd, args |-> <<Tuple(a)>>]
    ELSE [cmd |-> cmd, args |-> a]

\* most send() calls made on one writer
MaxSends == 3

\* the codes the callers of send() pass
SendCodes == {SET_JOB_CONF, MAP_ITEM, OUTPUT}

\* the argument tuples the callers of send() pass
ArgTuples ==
    {<<>>,
     <<Text(<<233>>)>>,
     <<Bytes(<<97>>)>>,
     <<Text(<<97>>), Bytes(<<97>>)>>,
     <<Num(7), Text(<<233, 97>>)>>,
     <<Bytes(<<195, 169>>), Num(7)>>}

\* a BinaryUpStreamAdapter over a fresh stream
InitWriter ==
    /\ input = <<>>
    /\ private_encoding = FALSE
    /\ Idle

\* BinaryUpStreamAdapter.send(cmd, *args)
Send ==
    /\ Len(sent) < MaxSends
    /\ \E cmd \in SendCodes, args \in ArgTuples :
          /\ wire' = CommandWriter_write(wire, send(cmd, args))
          /\ sent' = Append(sent, [cmd |-> cmd, args |-> args])
    /\ UNCHANGED <<input, pos, lifo, private_encoding, outer, inners, acted,
                   disciplined, last, ops, kv, kvOut, hf, raw, fh, mode>>

NextWriter == Send

SpecWriter == InitWriter /\ [][NextWriter]_vars

---------------------------------------------------------------------------
\* Mode (hdfs/common.py, lines 44-125)

\* os.O_RDONLY, os.O_WRONLY, os.O_APPEND (Linux)
O_RDONLY == 0
O_WRONLY == 1
O_APPEND == 1024

\* Mode.VALUE
VALUE == [c \in {"r", "w", "a"} |->
              IF c = "r" THEN O_RDONLY
              ELSE IF c = "w" THEN O_WRONLY
              ELSE O_WRONLY + O_APPEND]

\* Mode.FLAGS
FLAGS == [n \in {O_RDONLY, O_WRONLY, O_WRONLY + O_APPEND} |->
              IF n = O_RDONLY THEN "r" ELSE IF n = O_WRONLY THEN "w" ELSE "a"]

\* the arguments of Mode(): None, a string (the sequence of its characters) or
\* an integer
ModeArg(kind, s, n) == [kind |-> kind, s |-> s, n |-> n]

\* a Mode object, and the ValueError of self.__error
ModeObj(value, flags, text) ==
    [ok |-> TRUE, value |-> value, flags |-> flags, text |-> text]

ModeError == [ok |-> FALSE, value |-> <<>>, flags |-> 0, text |-> FALSE]

\* Mode.__init__ on an argument that is no Mode: `if not m: return` leaves
\* 'rb'; m[0] raises TypeError on an integer, which is looked up in FLAGS; the
\* first character of a string is looked up in VALUE, and text is m[1] == "t"
\* when there is an m[1]
Mode_init(m) ==
    IF m.kind = "none" \/ (m.kind = "str" /\ m.s = <<>>) \/ (m.kind = "int" /\ m.n = 0)
    THEN ModeObj(<<"r", "b">>, O_RDONLY, FALSE)
    ELSE IF m.kind = "int"
    THEN IF m.n \in DOMAIN FLAGS
         THEN ModeObj(<<FLAGS[m.n], "b">>, m.n, FALSE)
         ELSE ModeError
    ELSE IF m.s[1] \notin DOMAIN VALUE
    THEN ModeError
    ELSE LET text == Len(m.s) >= 2 /\ m.s[2] = "t" IN
         ModeObj(<<m.s[1], IF text THEN "t" ELSE "b">>, VALUE[m.s[1]], text)

\* Mode.__init__ on a Mode: value, flags and text are copied
Mode_copy(o) == ModeObj(o.value, o.flags, o.text)

\* Mode.writable: self.flags & os.O_WRONLY
Mode_writable(o) == (o.flags \div O_WRONLY) % 2 = 1

\* longest mode string
MaxModeLen == 3

\* the arguments tried: None, the strings over the letters of the documented
\* modes and one more, the three flag values and integers beside them
ModeArgs ==
    {ModeArg("none", <<>>, 0)}
        \cup {ModeArg("str", s, 0) :
                  s \in SeqsUpTo({"r", "w", "a", "b", "t", "x"}, MaxModeLen)}
        \cup {ModeArg("int", <<>>, n) :
                  n \in {O_RDONLY, O_WRONLY, O_WRONLY + 1, O_APPEND,
                         O_WRONLY + O_APPEND, O_WRONLY + O_APPEND + 1}}

\* an argument for Mode()
InitMode ==
    /\ input = <<>>
    /\ private_encoding = FALSE
    /\ pos = 0
    /\ lifo = <<>>
    /\ outer = "none"
    /\ inners = <<>>
    /\ acted = <<>>
    /\ disciplined = TRUE
    /\ last = NoCall
    /\ ops = <<>>
    /\ kv = "live"
    /\ kvOut = <<>>
    /\ wire = <<>>
    /\ sent = <<>>
    /\ hf = NoFile
    /\ raw = NoFile
    /\ fh = NoFile
    /\ \E m \in ModeArgs :
          mode = [made |-> FALSE, copied |-> FALSE, arg |-> m, obj |-> ModeError]

\* Mode(m)
ModeNew ==
    /\ ~mode.made
    /\ mode' = [mode EXCEPT !.made = TRUE, !.obj = Mode_init(mode.arg)]
    /\ UNCHANGED <<input, pos, lifo, private_encoding, outer, inners, acted,
                   disciplined, last, ops, kv, kvOut, wire, sent, hf, raw, fh>>

\* Mode(o) on the Mode object o made before
ModeCopy ==
    /\ mode.made
    /\ mode.obj.ok
    /\ ~mode.copied
    /\ mode' = [mode EXCEPT !.copied = TRUE, !.obj = Mode_copy(mode.obj)]
    /\ UNCHANGED <<input, pos, lifo, private_encoding, outer, inners, acted,
                   disciplined, last, ops, kv, kvOut, wire, sent, hf, raw, fh>>

NextMode == ModeNew \/ ModeCopy

SpecMode == InitMode /\ [][NextMode]_vars

---------------------------------------------------------------------------
\* hdfs_file (hdfs/file.py, lines 49-362) over a raw HDFS file

\* longest file content
MaxFile == 3
\* largest chunk_size a file is opened with
MaxChunk == 2
\* largest length passed to read()
MaxRead == 2
\* how far the size the filesystem reports may move away from the size at open
MaxGrow == 1

\* os.linesep.encode() on POSIX: the newline octet
ENDL == 10

\* os.SEEK_SET, os.SEEK_CUR, os.SEEK_END
SEEK_SET == 0
SEEK_CUR == 1
SEEK_END == 2

Min(a, b) == IF a < b THEN a ELSE b

Max(a, b) == IF a > b THEN a ELSE b

\* the octets files are made of: newline, "a", and the two octets of U+00E9
FileBytes == {ENDL, 97}

\* the contents of the files opened for reading: text in UTF-8
Contents ==
    SeqsUpTo(FileBytes, MaxFile)
        \cup {<<195, 169>>, <<195, 169, ENDL>>, <<97, 195, 169>>}

\* the sizes of the blocks the raw file is stored in
Blocks == {2, 3}

\* common.Mode: the mode strings files are opened with here, and what Mode
\* makes of them
Modes == {"rb", "rt", "wb", "wt"}

Mode(m) ==
    LET s == IF m = "rb" THEN <<"r", "b">>
             ELSE IF m = "rt" THEN <<"r", "t">>
             ELSE IF m = "wb" THEN <<"w", "b">>
             ELSE <<"w", "t">>
        o == Mode_init(ModeArg("str", s, 0))
    IN  [value |-> m, text |-> o.text, writable |-> Mode_writable(o)]

\* the inverse of encode_utf8 on octet sequences that are UTF-8 (code points
\* below U+0800), and a failure on the others: bytes.decode('utf-8', 'strict')
RECURSIVE decode_utf8(_)
decode_utf8(b) ==
    IF b = <<>> THEN [ok |-> TRUE, v |-> <<>>]
    ELSE IF b[1] < 128
    THEN LET d == decode_utf8(Tail(b)) IN [d EXCEPT !.v = <<b[1]>> \o @]
    ELSE IF b[1] >= 192 /\ b[1] < 224 /\ Len(b) >= 2 /\ b[2] >= 128 /\ b[2] < 192
    THEN LET d == decode_utf8(Tail(Tail(b))) IN
         [d EXCEPT !.v = <<(b[1] - 192) * 64 + (b[2] - 128)>> \o @]
    ELSE [ok |-> FALSE, v |-> <<>>]

\* the raw file: libhdfs read returns at most n octets from the position, none
\* at the end of the file, and stops at a block boundary
raw_read(r, n) ==
    LET k == Min(n, Min(Len(r.content) - r.pos, r.blk - (r.pos % r.blk))) IN
    [data |-> SubSeq(r.content, r.pos + 1, r.pos + k),
     raw |-> [r EXCEPT !.pos = @ + k, !.touched = TRUE]]

\* the raw file: close; the filesystem then knows the length of a file that
\* was written
raw_close(r) ==
    [r EXCEPT !.closed = TRUE, !.closes = @ + 1, !.touched = TRUE,
              !.fsize = IF r.writable THEN Len(r.content) ELSE @]

\* the raw file: seek fails on a negative offset
raw_seek(r, p) ==
    IF p < 0 THEN [ok |-> FALSE, raw |-> [r EXCEPT !.touched = TRUE]]
    ELSE [ok |-> TRUE, raw |-> [r EXCEPT !.pos = p, !.touched = TRUE]]

\* the raw file: write appends the octets
raw_write(r, b) ==
    [r EXCEPT !.content = @ \o b, !.pos = @ + Len(b), !.touched = TRUE]

\* the raw file: a call that leaves the file as it is (tell, available, flush,
\* pread, pread_chunk)
raw_call(r) == [r EXCEPT !.touched = TRUE]

\* fs.get_path_info(name)["size"]
get_path_info_size(r) == r.fsize

\* what a call on the file object comes back with: the object and the raw file
\* after it, how it ended, what it returned, the octets behind what it
\* returned and the raw reads it made (asked n, got so many)
FileResult(h, r, res, out, data, reads) ==
    [hf |-> h, raw |-> r, res |-> res, out |-> out, data |-> data, reads |-> reads]

\* hdfs_file.__reset
reset(h) == [h EXCEPT !.buffer_list = <<>>, !.chunk = <<>>, !.EOF = FALSE, !.p = 0]

\* hdfs_file.__init__: the object, or nothing when chunk_size is not positive
hdfs_file_init(r, m, chunk_size) ==
    IF ~(chunk_size > 0) THEN NoFile
    ELSE reset([closed |-> FALSE,
                text |-> Mode(m).text,
                writable |-> Mode(m).writable,
                size |-> get_path_info_size(r),
                chunk_size |-> chunk_size,
                buffer_list |-> <<>>, chunk |-> <<>>, EOF |-> FALSE, p |-> 0])

\* data.decode(encoding, errors) if encoding else data, with the default
\* encoding and errors of text mode
decode(h, data, r, reads) ==
    IF h.text
    THEN LET d == decode_utf8(data) IN
         IF d.ok THEN FileResult(h, r, "return", <<Text(d.v)>>, data, reads)
         ELSE FileResult(h, r, "UnicodeDecodeError", <<>>, data, reads)
    ELSE FileResult(h, r, "return", <<Bytes(data)>>, data, reads)

\* the loop of hdfs_file.read
RECURSIVE read_loop(_, _, _, _, _)
read_loop(chunk_size, r, length, data, reads) ==
    IF length <= 0 THEN [data |-> data, raw |-> r, reads |-> reads]
    ELSE LET n == Min(chunk_size, length)
             c == raw_read(r, n)
         IN IF c.data = <<>>
            THEN [data |-> data, raw |-> c.raw,
                  reads |-> Append(reads, [n |-> n, got |-> 0])]
            ELSE read_loop(chunk_size, c.raw, length - Len(c.data), data \o c.data,
                           Append(reads, [n |-> n, got |-> Len(c.data)]))

\* hdfs_file.read
hdfs_file_read(h, r, length) ==
    IF h.closed THEN FileResult(h, r, "ValueError", <<>>, <<>>, <<>>)
    ELSE LET l == read_loop(h.chunk_size, r, IF length < 0 THEN h.size ELSE length,
                            <<>>, <<>>)
         IN decode(h, l.data, l.raw, l.reads)

\* hdfs_file.__read_chunk
read_chunk(h, r) ==
    LET c == raw_read(r, h.chunk_size) IN
    [hf |-> [h EXCEPT !.chunk = c.data, !.p = 0, !.EOF = (c.data = <<>>) \/ @],
     raw |-> c.raw,
     read |-> [n |-> h.chunk_size, got |-> Len(c.data)]]

\* chunk.find(endl, p): the 0-based index of the first newline at or after p,
\* or -1
find(chunk, p) ==
    LET S == {j \in (p + 1)..Len(chunk) : chunk[j] = ENDL} IN
    IF S = {} THEN -1 ELSE (CHOOSE j \in S : \A k \in S : j <= k) - 1

\* the while loop of __read_chunks_until_nl leaves the tail of a chunk behind
\* instead of keeping it in buffer_list
RECURSIVE until_nl_loop_nobuffer(_, _, _)
until_nl_loop_nobuffer(h, r, reads) ==
    LET eol == find(h.chunk, h.p) IN
    IF eol < 0 /\ ~h.EOF
    THEN LET c == read_chunk(h, r) IN
         until_nl_loop_nobuffer(c.hf, c.raw, Append(reads, c.read))
    ELSE [hf |-> h, raw |-> r, reads |-> reads,
          eol |-> IF eol > -1 THEN eol ELSE Len(h.chunk)]

\* the while loop of __read_chunks_until_nl, from the find before it to the
\* return
RECURSIVE until_nl_loop(_, _, _)
until_nl_loop(h, r, reads) ==
    LET eol == find(h.chunk, h.p) IN
    IF eol < 0 /\ ~h.EOF
    THEN LET h2 == IF h.p < Len(h.chunk)
                   THEN [h EXCEPT !.buffer_list =
                                     Append(@, SubSeq(h.chunk, h.p + 1, Len(h.chunk)))]
                   ELSE h
             c == read_chunk(h2, r)
         IN until_nl_loop(c.hf, c.raw, Append(reads, c.read))
    ELSE [hf |-> h, raw |-> r, reads |-> reads,
          eol |-> IF eol > -1 THEN eol ELSE Len(h.chunk)]

\* hdfs_file.__read_chunks_until_nl
read_chunks_until_nl(h, r) ==
    IF h.EOF
    THEN LET eol == find(h.chunk, h.p) IN
         [hf |-> h, raw |-> r, reads |-> <<>>,
          eol |-> IF eol > -1 THEN eol ELSE Len(h.chunk)]
    ELSE IF h.chunk = <<>>
    THEN LET c == read_chunk(h, r) IN until_nl_loop(c.hf, c.raw, <<c.read>>)
    ELSE until_nl_loop(h, r, <<>>)

\* b"".join(buffer_list)
RECURSIVE join(_)
join(l) == IF l = <<>> THEN <<>> ELSE Head(l) \o join(Tail(l))

\* hdfs_file.readline
hdfs_file_readline(h, r) ==
    IF h.closed THEN FileResult(h, r, "ValueError", <<>>, <<>>, <<>>)
    ELSE LET x == read_chunks_until_nl(h, r)
             line == join(x.hf.buffer_list)
                         \o SubSeq(x.hf.chunk, x.hf.p + 1,
                                   Min(x.eol + 1, Len(x.hf.chunk)))
             h2 == [x.hf EXCEPT !.buffer_list = <<>>, !.p = x.eol + 1]
         IN decode(h2, line, x.raw, x.reads)

\* hdfs_file.__next__ / next
hdfs_file_next(h, r) ==
    IF h.closed THEN FileResult(h, r, "ValueError", <<>>, <<>>, <<>>)
    ELSE LET x == hdfs_file_readline(h, r) IN
         IF x.res = "return" /\ x.out[1].v = <<>>
         THEN [x EXCEPT !.res = "StopIteration", !.out = <<>>]
         ELSE x

\* close without the `if not self.closed` test
hdfs_file_close_again(h, r) ==
    LET r2 == raw_close(r) IN
    FileResult([h EXCEPT !.closed = TRUE,
                         !.size = IF h.writable THEN get_path_info_size(r2) ELSE @],
               r2, "return", <<>>, <<>>, <<>>)

\* hdfs_file.close
hdfs_file_close(h, r) ==
    IF h.closed THEN FileResult(h, r, "return", <<>>, <<>>, <<>>)
    ELSE LET r2 == raw_close(r) IN
         FileResult([h EXCEPT !.closed = TRUE,
                              !.size = IF h.writable THEN get_path_info_size(r2) ELSE @],
                    r2, "return", <<>>, <<>>, <<>>)

\* _seek_with_boundary_checks: the target, or IOError
seek_with_boundary_checks(h, r, position, whence) ==
    LET p == IF whence = SEEK_CUR THEN position + r.pos
             ELSE IF whence = SEEK_END THEN Max(0, position + h.size)
             ELSE position
    IN IF p > h.size THEN [ok |-> FALSE, position |-> p]
       ELSE IF h.writable THEN [ok |-> FALSE, position |-> p]
       ELSE [ok |-> TRUE, position |-> p]

\* seek without self.__reset()
hdfs_file_seek_noreset(h, r, position, whence) ==
    IF h.closed THEN FileResult(h, r, "ValueError", <<>>, <<>>, <<>>)
    ELSE LET c == seek_with_boundary_checks(h, r, position, whence) IN
         IF ~c.ok
         THEN FileResult(h, IF whence = SEEK_CUR THEN raw_call(r) ELSE r,
                         "IOError", <<>>, <<>>, <<>>)
         ELSE LET s == raw_seek(r, c.position) IN
              FileResult(h, s.raw, IF s.ok THEN "return" ELSE "IOError",
                         <<>>, <<>>, <<>>)

\* hdfs_file.seek
hdfs_file_seek(h, r, position, whence) ==
    IF h.closed THEN FileResult(h, r, "ValueError", <<>>, <<>>, <<>>)
    ELSE LET c == seek_with_boundary_checks(h, r, position, whence) IN
         IF ~c.ok
         THEN FileResult(h, IF whence = SEEK_CUR THEN raw_call(r) ELSE r,
                         "IOError", <<>>, <<>>, <<>>)
         ELSE LET s == raw_seek(r, c.position) IN
              FileResult(reset(h), s.raw, IF s.ok THEN "return" ELSE "IOError",
                         <<>>, <<>>, <<>>)

\* tell without _complain_ifclosed
hdfs_file_tell_unchecked(h, r) ==
    FileResult(h, raw_call(r), "return", <<Num(r.pos)>>, <<>>, <<>>)

\* hdfs_file.tell
hdfs_file_tell(h, r) ==
    IF h.closed THEN FileResult(h, r, "ValueError", <<>>, <<>>, <<>>)
    ELSE FileResult(h, raw_call(r), "return", <<Num(r.pos)>>, <<>>, <<>>)

\* write returns the number of octets written in text mode too
hdfs_file_write_octets(h, r, data) ==
    IF h.closed THEN FileResult(h, r, "ValueError", <<>>, <<>>, <<>>)
    ELSE IF ~h.writable THEN FileResult(h, r, "UnsupportedOperation", <<>>, <<>>, <<>>)
    ELSE LET b == IF h.text THEN encode_utf8(data.v) ELSE data.v IN
         FileResult(h, raw_write(r, b), "return", <<Num(Len(b))>>, <<>>, <<>>)

\* hdfs_file.write / write_chunk
hdfs_file_write(h, r, data) ==
    IF h.closed THEN FileResult(h, r, "ValueError", <<>>, <<>>, <<>>)
    ELSE IF ~h.writable THEN FileResult(h, r, "UnsupportedOperation", <<>>, <<>>, <<>>)
    ELSE IF h.text
    THEN FileResult(h, raw_write(r, encode_utf8(data.v)), "return",
                    <<Num(Len(data.v))>>, <<>>, <<>>)
    ELSE FileResult(h, raw_write(r, data.v), "return", <<Num(Len(data.v))>>, <<>>, <<>>)

\* hdfs_file.pread: the raw pread returns the octets at the position and
\* leaves the position of the file alone
hdfs_file_pread(h, r, position, length) ==
    IF h.closed THEN FileResult(h, r, "ValueError", <<>>, <<>>, <<>>)
    ELSE IF position < 0 THEN FileResult(h, r, "ValueError", <<>>, <<>>, <<>>)
    ELSE IF position > h.size THEN FileResult(h, r, "IOError", <<>>, <<>>, <<>>)
    ELSE LET n == IF length < 0 THEN h.size - position ELSE length
             d == SubSeq(r.content, position + 1, Min(position + n, Len(r.content)))
         IN FileResult(h, raw_call(r), "return", <<Bytes(d)>>, d, <<>>)

\* hdfs_file.pread_chunk into a buffer of n octets: the number of octets read
hdfs_file_pread_chunk(h, r, position, n) ==
    IF h.closed THEN FileResult(h, r, "ValueError", <<>>, <<>>, <<>>)
    ELSE IF position > h.size THEN FileResult(h, r, "IOError", <<>>, <<>>, <<>>)
    ELSE LET d == SubSeq(r.content, position + 1, Min(position + n, Len(r.content)))
         IN FileResult(h, raw_call(r), "return", <<Num(Len(d))>>, d, <<>>)

\* the file was opened: hdfs_file.__init__ did not raise
Opened == "pos" \in DOMAIN raw

\* open_file: a raw file over a content (empty when opened for writing), and
\* the hdfs_file made for it
InitFile ==
    /\ input = <<>>
    /\ private_encoding = FALSE
    /\ IdlePipes
    /\ \E m \in Modes, content \in Contents, blk \in Blocks, chunk_size \in 0..MaxChunk :
          LET r == [content |-> IF Mode(m).writable THEN <<>> ELSE content,
                    pos |-> 0, blk |-> blk, closed |-> FALSE, closes |-> 0,
                    writable |-> Mode(m).writable,
                    fsize |-> IF Mode(m).writable THEN 0 ELSE Len(content),
                    touched |-> FALSE]
              h == hdfs_file_init(r, m, chunk_size)
          IN /\ Mode(m).writable => content = <<>>
             /\ hf = h
             /\ raw = IF h = NoFile THEN NoFile ELSE r
             /\ fh = [op |-> "open", arg |-> <<chunk_size>>,
                      res |-> IF h = NoFile THEN "ValueError" ELSE "return",
                      out |-> <<>>, reads |-> <<>>, linear |-> TRUE, got |-> <<>>,
                      called |-> FALSE, eof |-> FALSE]

\* what a call that came back as x leaves behind; linear says that no read and
\* no seek was made so far, got is what the line reads returned while it was
\* so, called whether the call made a call on the raw file, eof whether it
\* was a successful seek made after the line reads had reached EOF
FileEffect(op, arg, x) ==
    /\ hf' = x.hf
    /\ raw' = [x.raw EXCEPT !.touched = FALSE]
    /\ fh' = [op |-> op, arg |-> arg, res |-> x.res, out |-> x.out,
              reads |-> x.reads,
              linear |-> fh.linear /\ op \notin {"read", "seek", "read_chunk"},
              got |-> IF ~fh.linear \/ op \in {"read", "seek", "read_chunk"} THEN <<>>
                      ELSE IF op \in {"readline", "next"} THEN fh.got \o x.data
                      ELSE fh.got,
              called |-> x.raw.touched,
              eof |-> (op = "seek" /\ x.res = "return" /\ hf.EOF)]
    /\ UNCHANGED <<input, pos, lifo, private_encoding, outer, inners, acted,
                   disciplined, last, ops, kv, kvOut, wire, sent, mode>>

\* f.read(length), f.read()
Read ==
    /\ Opened
    /\ ~hf.writable
    /\ \E length \in -1..MaxRead : FileEffect("read", <<length>>, hdfs_file_read(hf, raw, length))

\* f.readline()
Readline ==
    /\ Opened
    /\ ~hf.writable
    /\ FileEffect("readline", <<>>, hdfs_file_readline(hf, raw))

\* next(f)
NextLine ==
    /\ Opened
    /\ ~hf.writable
    /\ FileEffect("next", <<>>, hdfs_file_next(hf, raw))

\* f.close()
Close ==
    /\ Opened
    /\ FileEffect("close", <<>>, hdfs_file_close(hf, raw))

\* f.seek(position, whence)
Seek ==
    /\ Opened
    /\ \E position \in -1..1, whence \in {SEEK_SET, SEEK_CUR, SEEK_END} :
          FileEffect("seek", <<position, whence>>,
                     hdfs_file_seek(hf, raw, position, whence))

\* f.tell()
Tell ==
    /\ Opened
    /\ FileEffect("tell", <<>>, hdfs_file_tell(hf, raw))

\* f.write(data), f.write_chunk(data): text for a text file, bytes for a binary
\* one
Write ==
    /\ Opened
    /\ Len(raw.content) < MaxFile
    /\ \E data \in (IF hf.text THEN {Text(<<233>>), Text(<<97, 233>>)}
                     ELSE {Bytes(<<97>>), Bytes(<<195, 169>>)}) :
          FileEffect("write", data.v, hdfs_file_write(hf, raw, data))

\* f.write_chunk(chunk): self.write(chunk)
WriteChunk ==
    /\ Opened
    /\ Len(raw.content) < MaxFile
    /\ \E data \in (IF hf.text THEN {Text(<<233>>)} ELSE {Bytes(<<97>>)}) :
          FileEffect("write_chunk", data.v, hdfs_file_write(hf, raw, data))

\* f.available(): the octets left in the raw file
Available ==
    /\ Opened
    /\ ~hf.writable
    /\ FileEffect("available", <<>>,
                  IF hf.closed THEN FileResult(hf, raw, "ValueError", <<>>, <<>>, <<>>)
                  ELSE FileResult(hf, raw_call(raw), "return",
                                  <<Num(Len(raw.content) - raw.pos)>>, <<>>, <<>>))

\* f.pread(position, length)
Pread ==
    /\ Opened
    /\ ~hf.writable
    /\ \E position \in -1..1, length \in {1} :
          FileEffect("pread", <<position, length>>,
                     hdfs_file_pread(hf, raw, position, length))

\* f.pread_chunk(position, chunk) with a buffer of n octets
PreadChunk ==
    /\ Opened
    /\ ~hf.writable
    /\ \E position \in 0..1, n \in {1} :
          FileEffect("pread_chunk", <<position, n>>,
                     hdfs_file_pread_chunk(hf, raw, position, n))

\* f.read_chunk(chunk) with a buffer of n octets: self.f.read_chunk(chunk), the
\* number of octets the raw read stored
ReadChunk ==
    /\ Opened
    /\ ~hf.writable
    /\ \E n \in {1} :
          FileEffect("read_chunk", <<n>>,
                     IF hf.closed
                     THEN FileResult(hf, raw, "ValueError", <<>>, <<>>, <<>>)
                     ELSE LET c == raw_read(raw, n) IN
                          FileResult(hf, c.raw, "return", <<Num(Len(c.data))>>,
                                     c.data, <<[n |-> n, got |-> Len(c.data)]>>))

\* f.flush()
Flush ==
    /\ Opened
    /\ hf.writable
    /\ FileEffect("flush", <<>>,
                  IF hf.closed THEN FileResult(hf, raw, "ValueError", <<>>, <<>>, <<>>)
                  ELSE FileResult(hf, raw_call(raw), "return", <<>>, <<>>, <<>>))

\* the end of a `with` block: __exit__ calls self.close()
Exit ==
    /\ Opened
    /\ FileEffect("exit", <<>>, hdfs_file_close(hf, raw))

\* another client appends to the file while it is open here for reading: the
\* size the filesystem reports grows, the open raw file goes on reading the
\* content it was opened on
FsAppend ==
    /\ Opened
    /\ ~hf.closed
    /\ ~hf.writable
    /\ raw.fsize < Len(raw.content) + MaxGrow
    /\ FileEffect("fs", <<>>,
                  FileResult(hf, [raw EXCEPT !.fsize = @ + 1], "none", <<>>, <<>>, <<>>))

NextFile ==
    \/ Read
    \/ Readline
    \/ NextLine
    \/ Close
    \/ Seek
    \/ Tell
    \/ Write
    \/ WriteChunk
    \/ Available
    \/ Pread
    \/ PreadChunk
    \/ ReadChunk
    \/ Flush
    \/ Exit
    \/ FsAppend

SpecFile == InitFile /\ [][NextFile]_vars

---------------------------------------------------------------------------
\* Properties of KeyValuesStream

Reverse(s) == [j \in 1..Len(s) |-> s[Len(s) + 1 - j]]

OuterOps == {"gen", "next"}

\* what the stream hands over for payload x
Delivered(x) == IF private_encoding THEN private_decode(x) ELSE x

\* the (key, values) groups of a command sequence: each REDUCE_KEY opens a group
\* and each REDUCE_VALUE after it joins the group opened last
RECURSIVE Groups(_)
Groups(s) ==
    IF s = <<>> THEN <<>>
    ELSE LET c == s[Len(s)]
             g == Groups(Front(s))
         IN IF c.cmd = REDUCE_KEY
            THEN Append(g, [key |-> Delivered(c.args[1]), vals |-> <<>>])
            ELSE IF c.cmd = REDUCE_VALUE /\ g # <<>>
            THEN [g EXCEPT ![Len(g)].vals = Append(@, Delivered(c.args[1]))]
            ELSE g

\* the (key, values) pairs yielded so far
Yielded == [j \in 1..Len(inners) |-> [key |-> inners[j].key, vals |-> inners[j].vals]]

OuterEnded == last.op \in OuterOps /\ last.res = "StopIteration"

\* C1: Order preservation. For a well-formed input (REDUCE_KEY followed by
\* REDUCE_VALUEs, repeated, then CLOSE) and a caller that drains each inner
\* sequence before it asks for the next pair, the pairs yielded so far are
\* exactly the groups of the commands consumed so far, keys in the order of
\* their REDUCE_KEY commands and values in the order of their REDUCE_VALUE
\* commands; no call raises ProtocolError, and once the outer sequence has
\* ended with every inner sequence drained, the pairs yielded are the groups
\* of the whole input.
C1_OrderPreservation ==
    (WellFormed(input) /\ disciplined) =>
        /\ Yielded = Groups(SubSeq(input, 1, Len(acted)))
        /\ last.res # "ProtocolError"
        /\ (OuterEnded /\ AllDrained) => Yielded = Groups(input)

\* C1 witness: a well-formed input of two groups that both hold a value, drained
\* group by group until the outer sequence ended at CLOSE
C1_Witness ==
    /\ WellFormed(input)
    /\ disciplined
    /\ OuterEnded
    /\ AllDrained
    /\ Len(inners) = 2
    /\ inners[1].vals # <<>>
    /\ inners[2].vals # <<>>
    /\ inners[1].key # inners[2].key

\* C2: When an inner sequence draws a REDUCE_KEY or a CLOSE it pushes that
\* command back and ends without error, leaving it on top of the pushback
\* stack; and in every state the commands acted on so far (drawn and not pushed
\* back), followed by the pushed-back commands from the top of the stack down,
\* are exactly the commands the underlying iterator has delivered, in their
\* order: none is lost and none is acted on twice.
C2_PushBackTerminator ==
    /\ [j \in 1..Len(acted) |-> acted[j].c] \o Reverse(lifo) = SubSeq(input, 1, pos)
    /\ (/\ last.op = "inner"
        /\ last.seen # <<>>
        /\ last.seen[1].cmd \in {REDUCE_KEY, CLOSE})
       => (/\ last.res = "StopIteration"
           /\ last.pushed = last.seen
           /\ lifo # <<>>
           /\ lifo[Len(lifo)] = last.seen[1]
           /\ ~inners[last.i].live)

\* C2 witness: an inner sequence that had yielded a value drew the REDUCE_KEY of
\* the next group, and the outer sequence then yielded that key
C2_Witness ==
    /\ last.op \in OuterOps
    /\ last.res = "yield"
    /\ Len(last.seen) = 1
    /\ Len(inners) >= 2
    /\ ~inners[Len(inners) - 1].live
    /\ inners[Len(inners) - 1].vals # <<>>
    /\ inners[Len(inners)].at = inners[Len(inners) - 1].at
                                    + Len(inners[Len(inners) - 1].vals) + 1
    /\ disciplined

\* the latest inner sequence was left after it had yielded a value, and the next
\* command of the stream is a REDUCE_VALUE of its group
Abandoned ==
    /\ disciplined
    /\ inners # <<>>
    /\ inners[Len(inners)].live
    /\ inners[Len(inners)].vals # <<>>
    /\ lifo = <<>>
    /\ pos < Len(input)
    /\ input[pos + 1].cmd = REDUCE_VALUE

\* the first position after p that holds no REDUCE_VALUE (Len(input) + 1 if none)
RECURSIVE SkipValues(_)
SkipValues(p) ==
    IF p < Len(input) /\ input[p + 1].cmd = REDUCE_VALUE
    THEN SkipValues(p + 1)
    ELSE p + 1

\* C3 as stated: after an inner sequence was abandoned with a REDUCE_VALUE of
\* its group unread, the next request on the outer sequence raises
\* ProtocolError.
C3_AbandonRaises ==
    [][(Abandoned /\ last'.op \in OuterOps /\ pos' # pos)
           => last'.res = "ProtocolError"]_vars

\* C3 amended: after an inner sequence was abandoned with a REDUCE_VALUE of its
\* group unread, the next request on the outer sequence consumes the unread
\* REDUCE_VALUEs without raising for them, and what it does is decided by the
\* first command after them: it yields the key of a REDUCE_KEY, ends at CLOSE
\* or at the end of the stream, and raises ProtocolError only for another code.
C3_AbandonSkips ==
    [][(Abandoned /\ last'.op \in OuterOps /\ pos' # pos) =>
          LET n == SkipValues(pos) IN
          /\ pos' = IF n > Len(input) THEN Len(input) ELSE n
          /\ last'.seen = SubSeq(input, pos + 1, pos')
          /\ lifo' = <<>>
          /\ IF n > Len(input) \/ input[n].cmd = CLOSE
             THEN last'.res = "StopIteration"
             ELSE IF input[n].cmd = REDUCE_KEY
             THEN /\ last'.res = "yield"
                  /\ last'.out = <<Delivered(input[n].args[1])>>
             ELSE last'.res = "ProtocolError"]_vars

\* C3 witness: the first inner sequence was left live after one value, and the
\* next request on the outer sequence skipped the unread REDUCE_VALUE and
\* yielded the next key
C3_Witness ==
    /\ last.op \in OuterOps
    /\ last.res = "yield"
    /\ Len(last.seen) >= 2
    /\ last.seen[1].cmd = REDUCE_VALUE
    /\ Len(inners) = 2
    /\ inners[1].live
    /\ Len(inners[1].vals) = 1

\* C4: A REDUCE_VALUE drawn by the outer scan is skipped: it is consumed (not
\* pushed back), the scan goes on to the following command, and the request
\* neither yields nor raises for it: a request whose last drawn command is a
\* REDUCE_VALUE has reached the end of the stream and ends.
C4_ScanSkipsValue ==
    last.op \in OuterOps =>
        /\ last.pushed = <<>>
        /\ \A j \in 1..(Len(last.seen) - 1) : last.seen[j].cmd = REDUCE_VALUE
        /\ \A j \in 1..Len(last.seen) :
              last.seen[j].cmd = REDUCE_VALUE =>
                  /\ acted[Len(acted) - Len(last.seen) + j] = [c |-> last.seen[j], by |-> "outer"]
                  /\ j = Len(last.seen) =>
                        (last.res = "StopIteration" /\ lifo = <<>> /\ pos = Len(input))

\* C4 witness: a REDUCE_VALUE that came before the first REDUCE_KEY was skipped
\* and the key after it was yielded
C4_Witness ==
    /\ last.op \in OuterOps
    /\ last.res = "yield"
    /\ Len(last.seen) >= 2
    /\ last.seen[1].cmd = REDUCE_VALUE
    /\ Len(inners) = 1

\* C5 as stated: the call that draws an ABORT command and does not push it back
\* raises ProtocolAbort, and an inner sequence that draws ABORT raises it too.
C5_AbortRaisesProtocolAbort ==
    (last.seen # <<>> /\ last.seen[Len(last.seen)].cmd = ABORT)
        => last.res = "ProtocolAbort"

\* C6 as stated: once an ABORT command has been drawn from the underlying
\* stream, no further command is drawn from it, and the active group is not
\* finished: an inner sequence that draws ABORT does not come to its normal
\* end.
C6_NoDrawAfterAbort ==
    [][/\ (\E j \in 1..pos : input[j].cmd = ABORT) => pos' = pos
       /\ (/\ last'.op = "inner"
           /\ last'.seen # <<>>
           /\ last'.seen[1].cmd = ABORT) => last'.res # "StopIteration"]_vars

\* C7: When the outer scan draws a command whose code is not REDUCE_KEY, CLOSE
\* or REDUCE_VALUE, the request raises ProtocolError and yields no pair for
\* that command: no inner sequence stems from it.
C7_OutOfOrderRaises ==
    (/\ last.op \in OuterOps
     /\ last.seen # <<>>
     /\ last.seen[Len(last.seen)].cmd \notin {REDUCE_KEY, CLOSE, REDUCE_VALUE})
    => (/\ last.res = "ProtocolError"
        /\ last.out = <<>>
        /\ \A j \in 1..Len(inners) : inners[j].at < Len(acted))

\* C7 witness: after a first pair was yielded, the outer scan drew a MAP_ITEM
C7_Witness ==
    /\ last.op \in OuterOps
    /\ last.seen # <<>>
    /\ last.seen[Len(last.seen)].cmd = MAP_ITEM
    /\ inners # <<>>

---------------------------------------------------------------------------
\* Properties of get_key_value_stream

\* the position of the first CLOSE of s (Len(s) + 1 if it has none)
RECURSIVE FirstClose(_, _)
FirstClose(s, j) ==
    IF j > Len(s) \/ s[j].cmd = CLOSE THEN j ELSE FirstClose(s, j + 1)

\* MAP_ITEM commands followed by CLOSE (and by anything after it)
MapThenClose(s) ==
    /\ FirstClose(s, 1) <= Len(s)
    /\ \A j \in 1..(FirstClose(s, 1) - 1) : s[j].cmd = MAP_ITEM

\* C10: On an input made of MAP_ITEM commands followed by CLOSE,
\* get_key_value_stream yields the argument tuples of the MAP_ITEM commands
\* before the first CLOSE, unchanged and in stream order (one for each command
\* drawn), never raises ProtocolError, ends when it draws the first CLOSE, and
\* draws nothing after it.
C10_MapItems ==
    MapThenClose(input) =>
        LET c == FirstClose(input, 1) IN
        /\ pos <= c
        /\ kvOut = [j \in 1..(IF pos < c THEN pos ELSE c - 1) |-> input[j].args]
        /\ last.res # "ProtocolError"
        /\ (kv = "done") <=> (pos = c)

\* C10 witness: two MAP_ITEMs were yielded, the sequence ended at the CLOSE
\* after them, and a command after that CLOSE was left unread
C10_Witness ==
    /\ MapThenClose(input)
    /\ kv = "done"
    /\ last.op = "kv"
    /\ last.res = "StopIteration"
    /\ Len(kvOut) = 2
    /\ kvOut[1] # kvOut[2]
    /\ pos < Len(input)

---------------------------------------------------------------------------
\* More properties of get_key_value_stream and KeyValuesStream

\* the first position of s that holds no MAP_ITEM (Len(s) + 1 if there is none)
RECURSIVE FirstNonItem(_, _)
FirstNonItem(s, j) ==
    IF j > Len(s) \/ s[j].cmd # MAP_ITEM THEN j ELSE FirstNonItem(s, j + 1)

\* MAP_ITEM commands followed by a command that is neither MAP_ITEM nor CLOSE
MapThenOther(s) ==
    /\ FirstNonItem(s, 1) <= Len(s)
    /\ s[FirstNonItem(s, 1)].cmd # CLOSE

\* C11: On an input whose first command other than MAP_ITEM is not CLOSE,
\* get_key_value_stream raises ProtocolError in the very call that draws that
\* command; it has yielded the argument tuples of the MAP_ITEMs before it, one
\* for each command drawn, and it yields nothing and draws nothing after it.
C11_MapOutOfOrder ==
    MapThenOther(input) =>
        LET b == FirstNonItem(input, 1) IN
        /\ pos <= b
        /\ kvOut = [j \in 1..(IF pos < b THEN pos ELSE b - 1) |-> input[j].args]
        /\ (kv = "done") <=> (pos = b)
        /\ (last.op = "kv" /\ last.seen # <<>> /\ last.seen[1] = input[b] /\ pos = b)
              => (last.res = "ProtocolError" /\ last.out = <<>>)
        /\ (last.op = "kv" /\ last.res = "ProtocolError")
              => last.seen = <<input[b]>>
        /\ (pos = b) => (last.op = "kv" /\ last.res \in {"ProtocolError", "StopIteration"})

\* C11 witness: a MAP_ITEM was yielded, the next call drew a REDUCE_KEY and
\* raised ProtocolError, and a command after it was left unread
C11_Witness ==
    /\ MapThenOther(input)
    /\ last.op = "kv"
    /\ last.res = "ProtocolError"
    /\ last.seen[1].cmd = REDUCE_KEY
    /\ Len(kvOut) = 1
    /\ pos < Len(input)

\* the last command a call drew (NoCmd if it drew none)
LastSeen == IF last.seen = <<>> THEN NoCmd ELSE last.seen[Len(last.seen)]

\* C12: End of input is normal completion. A request on the outer sequence
\* that draws CLOSE, or that finds the stream exhausted (it drew nothing, or
\* only REDUCE_VALUEs it skipped), ends the sequence without an error and
\* pushes nothing back; an outer request raises ProtocolError only for a
\* command of another code; and an inner sequence never raises, and one that
\* finds the stream exhausted ends and pushes nothing back.
C12_EndIsNormal ==
    /\ (last.op \in OuterOps /\ LastSeen.cmd \in {CLOSE, REDUCE_VALUE, NoCmd.cmd})
          => (last.res = "StopIteration" /\ last.pushed = <<>> /\ last.out = <<>>)
    /\ (last.op \in OuterOps /\ LastSeen.cmd = REDUCE_VALUE)
          => (pos = Len(input) /\ lifo = <<>>)
    /\ (last.op \in OuterOps /\ last.res = "ProtocolError")
          => LastSeen.cmd \notin {REDUCE_KEY, REDUCE_VALUE, CLOSE, NoCmd.cmd}
    /\ (last.op = "inner")
          => last.res \in {"yield", "StopIteration"}
    /\ (last.op = "inner" /\ last.seen = <<>>)
          => (/\ last.res = "StopIteration"
              /\ last.pushed = <<>>
              /\ ~inners[last.i].live)

\* C12 witness: on an input without CLOSE the inner sequence of a key yielded
\* a value and then found the stream exhausted, and next() on the outer
\* sequence found it exhausted too
C12_Witness ==
    /\ \A j \in 1..Len(input) : input[j].cmd # CLOSE
    /\ outer = "none"
    /\ last.op = "next"
    /\ last.res = "StopIteration"
    /\ last.seen = <<>>
    /\ pos = Len(input)
    /\ Len(inners) = 1
    /\ ~inners[1].live
    /\ inners[1].vals # <<>>
    /\ disciplined

\* the codes get_value_stream names or that end a group
GroupCodes == {REDUCE_VALUE, REDUCE_KEY, CLOSE}

\* C13: An inner sequence that draws a command whose code is none of
\* REDUCE_VALUE, REDUCE_KEY, CLOSE pushes it back and ends without raising;
\* the next request that runs the outer scan (next(), or the fast_iterator
\* generator if it has not ended) draws that same command from the pushback
\* stack, draws nothing else, and raises ProtocolError.
C13_InnerDefersOther ==
    /\ [](last.op = "inner" /\ last.seen # <<>> /\ last.seen[1].cmd \notin GroupCodes
            => (/\ last.res = "StopIteration"
                /\ last.pushed = last.seen
                /\ lifo # <<>>
                /\ lifo[Len(lifo)] = last.seen[1]
                /\ ~inners[last.i].live))
    /\ [][(/\ lifo # <<>>
           /\ lifo[Len(lifo)].cmd \notin GroupCodes
           /\ last'.op \in OuterOps
           /\ lifo' # lifo)
          => (/\ last'.seen = <<lifo[Len(lifo)]>>
              /\ last'.res = "ProtocolError"
              /\ pos' = pos
              /\ inners' = inners)]_vars

\* C13 witness: an inner sequence that had yielded a value drew a MAP_ITEM,
\* and the next request on the outer sequence raised ProtocolError on it
C13_Witness ==
    /\ last.op \in OuterOps
    /\ last.res = "ProtocolError"
    /\ Len(last.seen) = 1
    /\ last.seen[1].cmd = MAP_ITEM
    /\ Len(inners) = 1
    /\ ~inners[1].live
    /\ inners[1].vals # <<>>
    /\ disciplined
    /\ pos = Len(acted)

\* C17: The private-decode rule is the same for keys and values and depends
\* only on the private-encoding flag: every key yielded and every value
\* yielded is private_decode of the first argument of its command when the
\* flag is set and that first argument itself when it is not; and the flag
\* never changes.
C17_DecodeRule ==
    /\ [](/\ \A j \in 1..Len(inners) :
                inners[j].key = Delivered(input[inners[j].at].args[1])
          /\ (last.op \in OuterOps \cup {"inner"} /\ last.res = "yield")
                => last.out = <<Delivered(LastSeen.args[1])>>
          /\ (last.op \in OuterOps \cup {"inner"} /\ last.res # "yield")
                => last.out = <<>>)
    /\ [][private_encoding' = private_encoding]_vars

\* C17 witness: with the flag set, a key and then a value of its group were
\* yielded, both decoded
C17_Witness ==
    /\ private_encoding
    /\ last.op = "inner"
    /\ last.res = "yield"
    /\ last.out = <<private_decode(last.seen[1].args[1])>>
    /\ inners[last.i].key = private_decode(input[inners[last.i].at].args[1])
    /\ inners[last.i].key # input[inners[last.i].at].args[1]

---------------------------------------------------------------------------
\* Properties of BinaryReader and BinaryWriter

ReaderOps == {"bnext", "biter"}

\* C14 as stated: a down-direction reader never hands a command whose code is
\* in the up vocabulary (50..57) to its caller as a normal result of next() or
\* of iteration.
C14_ReaderRejectsUp ==
    (last.op \in ReaderOps /\ last.res = "return") => last.out[1].cmd \notin UpCodes

\* C15 as stated: every record a BinaryUpStreamAdapter has written has a code
\* of the up vocabulary (50..57), and the send() calls with a down code have
\* written no record.
C15_OnlyUpCodes ==
    /\ \A i \in 1..Len(wire) : wire[i].cmd \in UpCodes
    /\ Len(wire) = Cardinality({i \in 1..Len(sent) : sent[i].cmd \in UpCodes})

\* a is the tuple args with every text argument replaced by its UTF-8 bytes and
\* every other argument unchanged, positions preserved
Normalized(a, args) ==
    /\ Len(a) = Len(args)
    /\ \A j \in 1..Len(args) :
          IF args[j].t = "text"
          THEN a[j].t = "bytes" /\ a[j].v = encode_utf8(args[j].v)
          ELSE a[j].t = args[j].t /\ a[j].v = args[j].v

\* C16: Each send(code, args...) call writes exactly one record, in call order:
\* the i-th record written has the code of the i-th call, and its arguments
\* are the normalized tuple of that call (text replaced by its UTF-8 bytes,
\* anything else unchanged, positions preserved), wrapped as the only element
\* of a 1-tuple when the code is SET_JOB_CONF and not wrapped for any other
\* code.
C16_SendRecord ==
    /\ Len(wire) = Len(sent)
    /\ \A i \in 1..Len(sent) :
          /\ wire[i].cmd = sent[i].cmd
          /\ IF sent[i].cmd = SET_JOB_CONF
             THEN /\ Len(wire[i].args) = 1
                  /\ wire[i].args[1].t = "tuple"
                  /\ Normalized(wire[i].args[1].v, sent[i].args)
             ELSE Normalized(wire[i].args, sent[i].args)

\* C16 witness: send(SET_JOB_CONF, 7, u'\xe9a') wrote one wrapped record with
\* the text as the bytes c3 a9 61, then send(OUTPUT, u'a', b'a') wrote a record
\* of two equal bytes arguments, not wrapped
C16_Witness ==
    /\ Len(wire) = 2
    /\ sent[1].cmd = SET_JOB_CONF
    /\ sent[1].args = <<Num(7), Text(<<233, 97>>)>>
    /\ Len(wire[1].args) = 1
    /\ wire[1].args[1].v[2] = Bytes(<<195, 169, 97>>)
    /\ sent[2].cmd = OUTPUT
    /\ sent[2].args = <<Text(<<97>>), Bytes(<<97>>)>>
    /\ Len(wire[2].args) = 2
    /\ wire[2].args[1] = wire[2].args[2]

---------------------------------------------------------------------------
\* Properties of hdfs_file

\* the octets behind a result of read or readline
ResultBytes(x) == IF x.t = "text" THEN encode_utf8(x.v) ELSE x.v

\* C18 as stated: read(length) with length >= 0 returns exactly min(length,
\* bytes remaining before EOF) bytes, the next contiguous bytes of the file,
\* also when raw reads come back short; every raw read asks for at most
\* chunk_size bytes and the loop stops at the first empty raw read; with a
\* negative length it returns all data up to EOF.
C18_ReadExact ==
    [][(fh'.op = "read" /\ Opened /\ ~hf.closed) =>
          LET length == fh'.arg[1]
              rem == Len(raw.content) - raw.pos
              n == IF length < 0 THEN rem ELSE Min(length, rem)
          IN /\ fh'.res = "return"
             /\ ResultBytes(fh'.out[1]) = SubSeq(raw.content, raw.pos + 1, raw.pos + n)
             /\ raw'.pos = raw.pos + n
             /\ \A j \in 1..Len(fh'.reads) :
                   /\ fh'.reads[j].n <= hf.chunk_size
                   /\ fh'.reads[j].got = 0 => j = Len(fh'.reads)]_vars

\* the line of content c that starts after offset off: up to and including the
\* next newline, or to the end when no newline is left
ExpectedLine(c, off) ==
    LET S == {j \in (off + 1)..Len(c) : c[j] = ENDL} IN
    IF off >= Len(c) THEN <<>>
    ELSE SubSeq(c, off + 1, IF S = {} THEN Len(c) ELSE CHOOSE j \in S : \A k \in S : j <= k)

\* C19: On a file open for reading, with any chunk_size >= 1, as long as no
\* read and no seek has been made, every readline() and next() returns the
\* line that starts where the previous one ended (up to and including the next
\* newline, or to EOF), as bytes in binary mode and as their text in text mode;
\* what the calls have returned so far, concatenated, is a prefix of the
\* content and all of it once a call came back empty; and when the content is
\* exhausted readline() returns an empty result and next() raises
\* StopIteration.
C19_ReadlineLines ==
    /\ []((Opened /\ fh.linear) =>
            /\ fh.got = SubSeq(raw.content, 1, Len(fh.got))
            /\ (fh.op = "next" /\ fh.res = "StopIteration") => fh.got = raw.content
            /\ (fh.op = "readline" /\ fh.res = "return" /\ fh.out[1].v = <<>>)
                  => fh.got = raw.content)
    /\ [][(fh'.op \in {"readline", "next"} /\ Opened /\ fh.linear /\ ~hf.closed) =>
            LET exp == ExpectedLine(raw.content, Len(fh.got)) IN
            /\ fh'.got = fh.got \o exp
            /\ IF exp = <<>> /\ fh'.op = "next"
               THEN fh'.res = "StopIteration" /\ fh'.out = <<>>
               ELSE /\ fh'.res = "return"
                    /\ fh'.out = <<IF hf.text THEN Text(decode_utf8(exp).v)
                                   ELSE Bytes(exp)>>]_vars

\* C19 witness: the file "aa\n" read with chunk_size 2, so that its line lies
\* across two chunks, and then next() raised StopIteration
C19_Witness ==
    /\ Opened
    /\ raw.content = <<97, 97, ENDL>>
    /\ hf.chunk_size = 2
    /\ fh.linear
    /\ fh.op = "next"
    /\ fh.res = "StopIteration"
    /\ fh.got = raw.content

\* C20 as stated: after close() returns, size equals the size the filesystem
\* reports for the file at that moment, and between open and close size never
\* changes.
C20_SizeUpdatedAtClose ==
    /\ []((Opened /\ fh.op = "close") => hf.size = get_path_info_size(raw))
    /\ [][(Opened /\ ~hf.closed /\ ~hf'.closed) => hf'.size = hf.size]_vars

---------------------------------------------------------------------------
\* Properties of Mode

\* the documented mode strings, and the two-letter form each stands for
DocumentedStrings ==
    {<<c>> : c \in {"r", "w", "a"}}
        \cup {<<c, k>> : c \in {"r", "w", "a"}, k \in {"b", "t"}}

\* the Mode the documentation gives to a documented argument
DocumentedMode(m) ==
    IF m.kind = "none" \/ (m.kind = "str" /\ m.s = <<>>) THEN <<"r", "b">>
    ELSE IF m.kind = "int" THEN <<FLAGS[m.n], "b">>
    ELSE IF Len(m.s) = 1 THEN <<m.s[1], "b">>
    ELSE m.s

Documented(m) ==
    \/ m.kind = "none"
    \/ m.kind = "str" /\ (m.s = <<>> \/ m.s \in DocumentedStrings)
    \/ m.kind = "int" /\ m.n \in {O_RDONLY, O_WRONLY, O_WRONLY + O_APPEND}

\* C21 as stated: Mode accepts exactly the documented modes, its value is the
\* two-letter form of the argument, text is true exactly for the 't' forms,
\* and every other mode string or flag value raises ValueError.
C21_ModeAccepts ==
    mode.made =>
        /\ mode.obj.ok <=> Documented(mode.arg)
        /\ mode.obj.ok =>
              /\ mode.obj.value = DocumentedMode(mode.arg)
              /\ mode.obj.text <=> (mode.obj.value[2] = "t")

---------------------------------------------------------------------------
\* The command vocabulary of the adapter classes (streams.py, lines 27-160)

\* the module-level names and the codes bound to them
Vocabulary ==
    [START_MESSAGE |-> START_MESSAGE, SET_JOB_CONF |-> SET_JOB_CONF,
     SET_INPUT_TYPES |-> SET_INPUT_TYPES, RUN_MAP |-> RUN_MAP,
     MAP_ITEM |-> MAP_ITEM, RUN_REDUCE |-> RUN_REDUCE,
     REDUCE_KEY |-> REDUCE_KEY, REDUCE_VALUE |-> REDUCE_VALUE,
     CLOSE |-> CLOSE, ABORT |-> ABORT,
     AUTHENTICATION_REQ |-> AUTHENTICATION_REQ,
     OUTPUT |-> OUTPUT, PARTITIONED_OUTPUT |-> PARTITIONED_OUTPUT,
     STATUS |-> STATUS, PROGRESS |-> PROGRESS, DONE |-> DONE,
     REGISTER_COUNTER |-> REGISTER_COUNTER,
     INCREMENT_COUNTER |-> INCREMENT_COUNTER,
     AUTHENTICATION_RESP |-> AUTHENTICATION_RESP]

\* the class attributes of StreamWriter
StreamWriter_consts ==
    [START_MESSAGE |-> START_MESSAGE, SET_JOB_CONF |-> SET_JOB_CONF,
     SET_INPUT_TYPES |-> SET_INPUT_TYPES, RUN_MAP |-> RUN_MAP,
     MAP_ITEM |-> MAP_ITEM, RUN_REDUCE |-> RUN_REDUCE,
     REDUCE_KEY |-> REDUCE_KEY, REDUCE_VALUE |-> REDUCE_VALUE,
     CLOSE |-> CLOSE, ABORT |-> ABORT,
     AUTHENTICATION_REQ |-> AUTHENTICATION_REQ,
     OUTPUT |-> OUTPUT, PARTITIONED_OUTPUT |-> PARTITIONED_OUTPUT,
     STATUS |-> STATUS, PROGRESS |-> PROGRESS, DONE |-> DONE,
     REGISTER_COUNTER |-> REGISTER_COUNTER,
     INCREMENT_COUNTER |-> INCREMENT_COUNTER,
     AUTHENTICATION_RESP |-> AUTHENTICATION_RESP]

\* the class attributes of StreamReader
StreamReader_consts ==
    [START_MESSAGE |-> START_MESSAGE, SET_JOB_CONF |-> SET_JOB_CONF,
     SET_INPUT_TYPES |-> SET_INPUT_TYPES, RUN_MAP |-> RUN_MAP,
     MAP_ITEM |-> MAP_ITEM, RUN_REDUCE |-> RUN_REDUCE,
     REDUCE_KEY |-> REDUCE_KEY, REDUCE_VALUE |-> REDUCE_VALUE,
     CLOSE |-> CLOSE, ABORT |-> ABORT,
     AUTHENTICATION_REQ |-> AUTHENTICATION_REQ,
     OUTPUT |-> OUTPUT, PARTITIONED_OUTPUT |-> PARTITIONED_OUTPUT,
     STATUS |-> STATUS, PROGRESS |-> PROGRESS, DONE |-> DONE,
     REGISTER_COUNTER |-> REGISTER_COUNTER,
     INCREMENT_COUNTER |-> INCREMENT_COUNTER,
     AUTHENTICATION_RESP |-> AUTHENTICATION_RESP]

\* a DownStreamAdapter whose CLOSE and ABORT are swapped
DownStreamAdapter_swapped ==
    [START_MESSAGE |-> START_MESSAGE, SET_JOB_CONF |-> SET_JOB_CONF,
     SET_INPUT_TYPES |-> SET_INPUT_TYPES, RUN_MAP |-> RUN_MAP,
     MAP_ITEM |-> MAP_ITEM, RUN_REDUCE |-> RUN_REDUCE,
     REDUCE_KEY |-> REDUCE_KEY, REDUCE_VALUE |-> REDUCE_VALUE,
     CLOSE |-> ABORT, ABORT |-> CLOSE,
     AUTHENTICATION_REQ |-> AUTHENTICATION_REQ]

\* the class attributes of DownStreamAdapter
DownStreamAdapter_consts ==
    [START_MESSAGE |-> START_MESSAGE, SET_JOB_CONF |-> SET_JOB_CONF,
     SET_INPUT_TYPES |-> SET_INPUT_TYPES, RUN_MAP |-> RUN_MAP,
     MAP_ITEM |-> MAP_ITEM, RUN_REDUCE |-> RUN_REDUCE,
     REDUCE_KEY |-> REDUCE_KEY, REDUCE_VALUE |-> REDUCE_VALUE,
     CLOSE |-> CLOSE, ABORT |-> ABORT,
     AUTHENTICATION_REQ |-> AUTHENTICATION_REQ]

\* the class attributes UpStreamAdapter defines itself; it inherits the others
\* from StreamWriter
UpStreamAdapter_consts ==
    [OUTPUT |-> OUTPUT, PARTITIONED_OUTPUT |-> PARTITIONED_OUTPUT,
     STATUS |-> STATUS, PROGRESS |-> PROGRESS, DONE |-> DONE,
     REGISTER_COUNTER |-> REGISTER_COUNTER,
     INCREMENT_COUNTER |-> INCREMENT_COUNTER,
     AUTHENTICATION_RESP |-> AUTHENTICATION_RESP]

\* the codes a table of constants holds
CodesOf(t) == {t[n] : n \in DOMAIN t}

\* C22: the down codes are exactly START_MESSAGE=0 .. AUTHENTICATION_REQ=10,
\* the up codes exactly OUTPUT=50 .. AUTHENTICATION_RESP=57, the two sets are
\* disjoint, all codes are distinct, and every class-level constant of
\* StreamWriter, StreamReader, DownStreamAdapter and UpStreamAdapter equals the
\* module-level constant of its name; so a command the reader hands over is
\* named by the same constant in every class.
C22_Vocabulary ==
    /\ Vocabulary =
           [START_MESSAGE |-> 0, SET_JOB_CONF |-> 1, SET_INPUT_TYPES |-> 2,
            RUN_MAP |-> 3, MAP_ITEM |-> 4, RUN_REDUCE |-> 5, REDUCE_KEY |-> 6,
            REDUCE_VALUE |-> 7, CLOSE |-> 8, ABORT |-> 9,
            AUTHENTICATION_REQ |-> 10, OUTPUT |-> 50,
            PARTITIONED_OUTPUT |-> 51, STATUS |-> 52, PROGRESS |-> 53,
            DONE |-> 54, REGISTER_COUNTER |-> 55, INCREMENT_COUNTER |-> 56,
            AUTHENTICATION_RESP |-> 57]
    /\ CodesOf(DownStreamAdapter_consts) = 0..10
    /\ CodesOf(UpStreamAdapter_consts) = 50..57
    /\ CodesOf(DownStreamAdapter_consts) \cap CodesOf(UpStreamAdapter_consts) = {}
    /\ Cardinality(CodesOf(Vocabulary)) = Cardinality(DOMAIN Vocabulary)
    /\ DOMAIN DownStreamAdapter_consts \cup DOMAIN UpStreamAdapter_consts
           = DOMAIN Vocabulary
    /\ \A t \in {StreamWriter_consts, StreamReader_consts} :
           DOMAIN t = DOMAIN Vocabulary
    /\ \A t \in {StreamWriter_consts, StreamReader_consts,
                 DownStreamAdapter_consts, UpStreamAdapter_consts} :
           \A n \in DOMAIN t : t[n] = Vocabulary[n]
    /\ (last.op \in ReaderOps /\ last.res = "return") =>
           \A n \in DOMAIN DownStreamAdapter_consts :
               (last.out[1].cmd = DownStreamAdapter_consts[n])
                   <=> (last.out[1].cmd = StreamReader_consts[n])

\* the reader has handed over a CLOSE and an ABORT command, each named by the
\* constant of DownStreamAdapter
C22_Witness ==
    /\ last.op \in ReaderOps
    /\ last.res = "return"
    /\ last.out[1].cmd = DownStreamAdapter_consts.ABORT
    /\ pos >= 2
    /\ input[pos - 1].cmd = DownStreamAdapter_consts.CLOSE

---------------------------------------------------------------------------
\* Properties of the grouping (continued)

\* the positions of the REDUCE_VALUE commands of the group whose REDUCE_KEY is
\* the at-th command of the underlying stream
GroupOf(at) ==
    {q \in (at + 1)..Len(input) :
        \A x \in (at + 1)..q : input[x].cmd = REDUCE_VALUE}

\* C23 as stated: every value an inner values sequence has yielded is the
\* payload of a REDUCE_VALUE between its own REDUCE_KEY and the next
\* REDUCE_KEY or CLOSE, for every interleaving of outer and inner requests.
C23_InnerOwnGroup ==
    \A i \in 1..Len(inners) :
        \A j \in 1..Len(inners[i].vals) :
            inners[i].vals[j] \in
                {decode_arg(private_encoding, input[q].args) : q \in GroupOf(inners[i].at)}

C25_TerminationFinal ==
    [][(/\ last.op \in OuterOps
        /\ last.res \in {"StopIteration", "ProtocolError"}
        /\ last'.op \in OuterOps)
       => (pos' = pos /\ last'.res # "yield")]_vars

\* C26: advancing the outer sequence through the fast_iterator generator and
\* through next() is the same step: in every state the stream can be in, for
\* every input and every consumption pattern of the inner sequences, the two
\* draw the same commands, come back alike (the same key, the end, or
\* ProtocolError at the same command) and leave the PushBackStream in the same
\* state, so two runs that differ only in the way they advance agree up to the
\* first end or error.
C26_GeneratorEqualsNext ==
    LET g == fast_iterator(private_encoding, lifo, pos, <<>>)
        n == KeyValuesStream_next(private_encoding, lifo, pos, <<>>)
    IN  /\ g.res = n.res
        /\ g.out = n.out
        /\ g.seen = n.seen
        /\ g.lifo = n.lifo
        /\ g.pos = n.pos

\* with a generator in use and an inner sequence suspended after its first
\* value, the next advance skips a value and yields a key either way
C26_Witness ==
    /\ Len(inners) >= 1
    /\ outer = "live"
    /\ last.op = "inner"
    /\ last.res = "yield"
    /\ fast_iterator(private_encoding, lifo, pos, <<>>).res = "yield"
    /\ Len(KeyValuesStream_next(private_encoding, lifo, pos, <<>>).seen) >= 2

\* the inner sequence the outer request before the last one left as the newest
PrevInner == IF last.res = "yield" THEN Len(inners) - 1 ELSE Len(inners)

\* C27: when a REDUCE_KEY is immediately followed by another REDUCE_KEY or by
\* CLOSE, the key is yielded with an inner sequence that, asked for a value,
\* ends at once with none and leaves the following command to the outer
\* sequence; the next outer request, whether or not the inner sequence was
\* asked, draws exactly that command and yields its key or ends cleanly.
C27_EmptyGroup ==
    /\ LET i == Len(inners) IN
        (/\ i >= 1
         /\ inners[i].at < Len(input)
         /\ input[inners[i].at + 1].cmd \in {REDUCE_KEY, CLOSE}
         /\ last.op = "inner"
         /\ last.i = i
         /\ \A j \in (inners[i].at + 1)..Len(acted) : acted[j].by = "inner")
        => (/\ last.res = "StopIteration"
            /\ inners[i].vals = <<>>
            /\ ~inners[i].live
            /\ Len(acted) = inners[i].at
            /\ lifo = <<input[inners[i].at + 1]>>)
    /\ (/\ last.op \in OuterOps
        /\ last.seen # <<>>
        /\ PrevInner >= 1
        /\ Len(acted) - Len(last.seen) = inners[PrevInner].at
        /\ inners[PrevInner].at < Len(input)
        /\ input[inners[PrevInner].at + 1].cmd \in {REDUCE_KEY, CLOSE})
       => LET c == input[inners[PrevInner].at + 1] IN
          /\ last.seen = <<c>>
          /\ inners[PrevInner].vals = <<>>
          /\ c.cmd = REDUCE_KEY =>
                 /\ last.res = "yield"
                 /\ last.out = <<decode_arg(private_encoding, c.args)>>
          /\ c.cmd = CLOSE => last.res = "StopIteration"

\* a key with no values was yielded, its inner sequence ended at once, and the
\* next outer request yielded the key that follows it
C27_Witness ==
    /\ Len(inners) = 2
    /\ inners[2].at = inners[1].at + 1
    /\ inners[1].vals = <<>>
    /\ ~inners[1].live
    /\ last.op \in OuterOps
    /\ last.res = "yield"
    /\ last.seen = <<input[inners[2].at]>>

\* the position of the first command of s that is neither REDUCE_KEY nor
\* REDUCE_VALUE: the first CLOSE or offending command (Len(s) if there is none)
RECURSIVE FirstStop(_, _)
FirstStop(s, j) ==
    IF j >= Len(s) \/ s[j].cmd \notin {REDUCE_KEY, REDUCE_VALUE} THEN j
    ELSE FirstStop(s, j + 1)

\* C28: for every finite command sequence a caller that asks for the next
\* pair and drains each inner sequence reaches the end of the outer sequence
\* or a ProtocolError; each command is drawn from the underlying iterator at
\* most once and in order (the commands consumed and the one pushed back are
\* the first pos commands), and the number of draws never exceeds the position
\* of the first CLOSE or offending command.
C28_DrainTerminates ==
    /\ <>Finished
    /\ [](/\ Len(acted) + Len(lifo) = pos
          /\ \A j \in 1..Len(acted) : acted[j].c = input[j]
          /\ lifo # <<>> => lifo = <<input[pos]>>
          /\ pos <= FirstStop(input, 1))

\* the caller has drained two groups, one of them with values, and the outer
\* sequence has ended at the first CLOSE, which other commands follow
C28_Witness ==
    /\ Finished
    /\ Len(inners) >= 2
    /\ \E i \in 1..Len(inners) : inners[i].vals # <<>>
    /\ pos = FirstStop(input, 1)
    /\ pos >= 1

---------------------------------------------------------------------------
\* Properties of hdfs_file (continued)

\* the I/O operations of an hdfs_file
IOOps == {"readline", "next", "available", "pread", "pread_chunk", "read",
          "read_chunk", "seek", "tell", "write", "write_chunk", "flush"}

\* C29: once an hdfs_file is closed, readline, next, available, pread,
\* pread_chunk, read, read_chunk, seek, tell, write, write_chunk and flush raise
\* ValueError, make no call on the raw file and change neither the object nor
\* the raw file.
C29_ClosedRaises ==
    [][(Opened /\ hf.closed /\ fh' # fh /\ fh'.op \in IOOps)
       => (/\ fh'.res = "ValueError"
           /\ ~fh'.called
           /\ fh'.reads = <<>>
           /\ fh'.out = <<>>
           /\ hf' = hf
           /\ raw' = raw)]_vars

\* pread_chunk was called on a file closed after some of it was read
C29_Witness ==
    /\ Opened
    /\ hf.closed
    /\ raw.pos > 0
    /\ fh.op = "pread_chunk"
    /\ fh.res = "ValueError"

\* C30: close() is idempotent and closing is irreversible: the raw file is
\* closed at most once, a close() (or the __exit__ of a with block) on a closed
\* file returns without raising, calls nothing on the raw file and changes
\* nothing, and the closed flag never goes back from true to false.
C30_CloseOnce ==
    /\ [](Opened => raw.closes <= 1)
    /\ [](Opened => (hf.closed <=> raw.closes = 1))
    /\ [][(Opened /\ hf.closed) => hf'.closed]_vars
    /\ [][(Opened /\ hf.closed /\ fh'.op \in {"close", "exit"})
          => (/\ fh'.res = "return"
              /\ ~fh'.called
              /\ hf' = hf
              /\ raw' = raw)]_vars

\* close() came back from a file that an earlier close() had closed
C30_Witness ==
    /\ Opened
    /\ hf.closed
    /\ raw.closes = 1
    /\ fh.op = "close"
    /\ ~fh.called
    /\ raw.pos > 0

\* the line-buffer state of an hdfs_file
LineBuffer(h) == <<h.chunk, h.buffer_list, h.EOF, h.p>>

\* the target of seek(position, whence) as documented, tell() being pos
SeekTarget(position, whence, size, tell) ==
    IF whence = SEEK_CUR THEN position + tell
    ELSE IF whence = SEEK_END THEN Max(0, position + size)
    ELSE position

\* C31 as stated: seek(position, whence) on an open file resolves its target
\* as position, position + tell() or max(0, position + size), raises IOError
\* when the target is greater than size or the file is writable, and
\* otherwise moves the raw file there; when it raises, the raw position and
\* the line-buffer state are unchanged, and a negative target never reaches
\* the raw file (the only raw call seek makes for SEEK_SET is the raw seek).
C31_SeekChecks ==
    [][(Opened /\ ~hf.closed /\ fh'.op = "seek")
       => LET target == SeekTarget(fh'.arg[1], fh'.arg[2], hf.size, raw.pos) IN
          /\ (target > hf.size \/ hf.writable) => fh'.res = "IOError"
          /\ fh'.res = "return" => raw'.pos = target
          /\ fh'.res # "return" =>
                 /\ raw'.pos = raw.pos
                 /\ LineBuffer(hf') = LineBuffer(hf)
          /\ (target < 0 /\ fh'.arg[2] = SEEK_SET) => ~fh'.called]_vars

C33_SharedPosition ==
    [][(/\ Opened
        /\ ~hf.closed
        /\ fh.linear
        /\ fh.op = "readline"
        /\ fh.res = "return")
       => (/\ (fh'.op = "read" /\ fh'.arg[1] >= 0) =>
                 /\ fh'.res = "return"
                 /\ ResultBytes(fh'.out[1])
                        = SubSeq(raw.content, Len(fh.got) + 1,
                                 Min(Len(fh.got) + fh'.arg[1], Len(raw.content)))
           /\ fh'.op = "tell" =>
                 /\ fh'.res = "return"
                 /\ fh'.out = <<Num(Len(fh.got))>>)]_vars

====
